---- MODULE Spec2Model ----
(***************************************************************************)
(* Model of the minicode backend: the three owner-scoped repositories      *)
(* (projects, project files, agent states) over the relational store, the  *)
(* WebSocket command validator, and the WebSocket session controller with  *)
(* its connection registry.  One step of a process is one store statement  *)
(* (one await of the source) together with the synchronous code around it. *)
(***************************************************************************)
EXTENDS Naturals, Integers, Sequences, FiniteSets, TLC

\* ------------------------------------------------------------------ bounds
MaxClock == 1          \* values of the wall clock: 0..MaxClock
MaxHistory == 2        \* longest conversationHistory a user_message may build

\* ------------------------------------------------------- program constants
CloseForbidden == 4003
CloseNotFound == 4004
CloseConflict == 4000
CloseInternal == 1011
NotClosed == 0         \* ws.close has not been called
NullPhase == -1        \* currentPhase = null (the column is a nullable integer)

\* ---------------------------------------------------------------- universe
Users == {"userA", "userB"}
ProjectIds == {"p1", "p2"}
StateIds == {"s1", "s2"}
FileIds == {"f1", "f2"}
Conns == {"ws1", "ws2"}
NULL == "NULL"                       \* a null text column / null JSON value
None == <<>>                         \* an input field that is undefined
Some(v) == <<v>>                     \* an input field that is present
NoRow == [null |-> TRUE]             \* an empty query result / a null return
Space == " "

\* `a ?? b` of the source for text values, and for optional input fields
Coalesce(a, b) == IF a = NULL THEN b ELSE a
OrElse(opt, d) == IF opt = None THEN d ELSE opt[1]
One(rows) == IF rows = {} THEN NoRow ELSE CHOOSE r \in rows : TRUE

VARIABLES
    projects,        \* table projects: set of rows
    projectFiles,    \* table project_files: set of rows
    agentStates,     \* table agent_states: set of rows
    now,             \* the wall clock read by new Date()
    call,            \* the repository call in flight from the REST side
    ret,             \* what the last finished repository call returned
    wsConnections,   \* the session registry: connection id -> session
    wsData,          \* ws.data of each socket (params.projectId, userId)
    pc,              \* where each connection's running callback stands
    loc,             \* the running callback's local variables
    sent,            \* messages sent by the current / last callback
    closedWith       \* the code ws.close was called with, or NotClosed

db == <<projects, projectFiles, agentStates>>
wsvars == <<wsConnections, wsData, pc, loc, sent, closedWith>>
vars == <<projects, projectFiles, agentStates, now, call, ret,
          wsConnections, wsData, pc, loc, sent, closedWith>>

\* ===================================================== ProjectsRepository
OwnedBy(projs, projectId, userId) ==
    {p \in projs : p.id = projectId /\ p.userId = userId}

GetByIdForUser(projs, projectId, userId) == One(OwnedBy(projs, projectId, userId))

\* insert(projects).values(input): the primary key rejects a second row
NewProject(input, t) ==
    [userId |-> input.userId, id |-> input.id, name |-> input.name,
     description |-> OrElse(input.description, NULL), status |-> "idle",
     previewUrl |-> NULL, sandboxId |-> NULL, updatedAt |-> t]

CreateProject(projs, input, t) ==
    IF \E p \in projs : p.id = input.id
    THEN [rows |-> projs, threw |-> "23505", value |-> NoRow]
    ELSE [rows |-> projs \cup {NewProject(input, t)}, threw |-> "",
          value |-> NewProject(input, t)]

\* an update that writes whatever the patch holds
PatchNeverEmpty(patch) == FALSE

PatchIsEmpty(patch) ==
    /\ patch.name = None /\ patch.description = None /\ patch.status = None
    /\ patch.previewUrl = None /\ patch.sandboxId = None

ApplyPatch(p, patch, t) ==
    [p EXCEPT !.name = OrElse(patch.name, @),
              !.description = OrElse(patch.description, @),
              !.status = OrElse(patch.status, @),
              !.previewUrl = OrElse(patch.previewUrl, @),
              !.sandboxId = OrElse(patch.sandboxId, @),
              !.updatedAt = t]

\* a where clause that forgot the owner
AnyOwner(projs, projectId, userId) == {p \in projs : p.id = projectId}

UpdateTargets(projs, projectId, userId) == OwnedBy(projs, projectId, userId)

UpdateForUser(projs, projectId, userId, patch, t) ==
    IF PatchIsEmpty(patch)
    THEN [rows |-> projs, value |-> GetByIdForUser(projs, projectId, userId)]
    ELSE LET hit == UpdateTargets(projs, projectId, userId)
             new == {ApplyPatch(p, patch, t) : p \in hit}
         IN [rows |-> (projs \ hit) \cup new, value |-> One(new)]

DeleteTargets(projs, projectId, userId) == OwnedBy(projs, projectId, userId)

\* a store whose foreign keys do not cascade
DeleteWithoutCascade(projs, files, states, projectId, userId) ==
    LET hit == DeleteTargets(projs, projectId, userId)
    IN [projects |-> projs \ hit, projectFiles |-> files, agentStates |-> states,
        value |-> hit # {}]

\* delete(projects) ... returning(); files and agent states go with the
\* project (onDelete: "cascade")
DeleteForUser(projs, files, states, projectId, userId) ==
    LET hit == DeleteTargets(projs, projectId, userId)
        gone == {p.id : p \in hit}
    IN [projects |-> projs \ hit,
        projectFiles |-> {f \in files : f.projectId \notin gone},
        agentStates |-> {s \in states : s.projectId \notin gone},
        value |-> hit # {}]

\* ================================================== AgentStatesRepository
\* an ownership check that only looks the project up
ProjectExists(projs, projectId, userId) == \E p \in projs : p.id = projectId

CanAccessProject(projs, projectId, userId) ==
    OwnedBy(projs, projectId, userId) # {}

\* agent_states inner join projects on (projects.id = agent_states.projectId
\* and projects.userId = userId) where agent_states.projectId = projectId
VisibleStates(projs, states, projectId, userId) ==
    {s \in states : s.projectId = projectId
                    /\ \E p \in projs : p.id = s.projectId /\ p.userId = userId}

GetByProjectForUser(projs, states, projectId, userId) ==
    One(VisibleStates(projs, states, projectId, userId))

\* .values({...}): the row an insert would create
InsertedState(input, t) ==
    [projectId |-> input.projectId, id |-> input.id,
     previewUrl |-> OrElse(input.previewUrl, NULL),
     sandboxId |-> OrElse(input.sandboxId, NULL), updatedAt |-> t,
     currentState |-> input.currentState, currentPhase |-> input.currentPhase,
     phases |-> OrElse(input.phases, <<>>),
     generatedFiles |-> OrElse(input.generatedFiles, <<>>),
     conversationHistory |-> OrElse(input.conversationHistory, <<>>)]

\* an update that writes the defaults of the fields its input omits
MergeClobbers(old, input, t) ==
    [InsertedState(input, t) EXCEPT !.id = old.id]

\* .onConflictDoUpdate({ set: {...} }): only defined fields overwrite
MergedState(old, input, t) ==
    [old EXCEPT !.currentState = input.currentState,
                !.currentPhase = input.currentPhase,
                !.updatedAt = t,
                !.phases = OrElse(input.phases, @),
                !.generatedFiles = OrElse(input.generatedFiles, @),
                !.conversationHistory = OrElse(input.conversationHistory, @),
                !.sandboxId = OrElse(input.sandboxId, @),
                !.previewUrl = OrElse(input.previewUrl, @)]

\* a store without the unique constraint on projectId: a plain insert
InsertStateUnconstrained(projs, states, input, t) ==
    IF \E s \in states : s.id = input.id
    THEN [rows |-> states, threw |-> "23505", value |-> NoRow]
    ELSE IF ~ \E p \in projs : p.id = input.projectId
    THEN [rows |-> states, threw |-> "23503", value |-> NoRow]
    ELSE [rows |-> states \cup {InsertedState(input, t)}, threw |-> "",
          value |-> InsertedState(input, t)]

\* insert(agent_states) ... onConflictDoUpdate({ target: projectId }).
\* The store takes the update path when a row holds the same projectId,
\* raises 23505 when only the primary key collides, and 23503 when the
\* referenced project is gone.
InsertStateOnConflict(projs, states, input, t) ==
    LET same == {s \in states : s.projectId = input.projectId} IN
    IF same # {}
    THEN LET new == {MergedState(s, input, t) : s \in same}
         IN [rows |-> (states \ same) \cup new, threw |-> "",
             value |-> One(new)]
    ELSE IF \E s \in states : s.id = input.id
    THEN [rows |-> states, threw |-> "23505", value |-> NoRow]
    ELSE IF ~ \E p \in projs : p.id = input.projectId
    THEN [rows |-> states, threw |-> "23503", value |-> NoRow]
    ELSE [rows |-> states \cup {InsertedState(input, t)}, threw |-> "",
          value |-> InsertedState(input, t)]

\* a reset that does not ask who owns the project
ResetTargetsOfAnyone(projs, states, input) ==
    {s \in states : s.projectId = input.projectId}

ResetTargets(projs, states, input) ==
    {s \in states : s.projectId = input.projectId
                    /\ CanAccessProject(projs, input.projectId, input.userId)}

ResetForProject(projs, states, input) ==
    LET hit == ResetTargets(projs, states, input)
    IN [rows |-> states \ hit, value |-> hit # {}]

\* isDatabaseUniqueViolation + the catch blocks of the upserts: what the
\* repository throws for a store error code
Translate(code) == IF code = "23505" THEN "UniqueConstraintError" ELSE code

\* ================================================= ProjectFilesRepository
Paths == <<"a.ts", "b.ts">>                 \* in ascending order
PathRank(path) == CHOOSE i \in 1..Len(Paths) : Paths[i] = path

VisibleFiles(projs, files, projectId, userId) ==
    {f \in files : f.projectId = projectId
                   /\ \E p \in projs : p.id = f.projectId /\ p.userId = userId}

RECURSIVE SortByPath(_)
SortByPath(rows) ==
    IF rows = {} THEN <<>>
    ELSE LET first == CHOOSE f \in rows :
                          \A g \in rows : PathRank(f.path) <= PathRank(g.path)
         IN <<first>> \o SortByPath(rows \ {first})

ListByProjectForUser(projs, files, projectId, userId) ==
    SortByPath(VisibleFiles(projs, files, projectId, userId))

InsertedFile(input, t) ==
    [projectId |-> input.projectId, id |-> input.id, updatedAt |-> t,
     path |-> input.path, content |-> input.content]

\* a store without the unique constraint on (projectId, path): a plain insert
InsertFileUnconstrained(projs, files, input, t) ==
    IF \E f \in files : f.id = input.id
    THEN [rows |-> files, threw |-> "23505", value |-> NoRow]
    ELSE IF ~ \E p \in projs : p.id = input.projectId
    THEN [rows |-> files, threw |-> "23503", value |-> NoRow]
    ELSE [rows |-> files \cup {InsertedFile(input, t)}, threw |-> "",
          value |-> InsertedFile(input, t)]

\* insert(projectFiles) ... onConflictDoUpdate({ target: [projectId, path] })
InsertFileOnConflict(projs, files, input, t) ==
    LET same == {f \in files : f.projectId = input.projectId
                               /\ f.path = input.path} IN
    IF same # {}
    THEN LET new == {[f EXCEPT !.content = input.content, !.updatedAt = t]
                       : f \in same}
         IN [rows |-> (files \ same) \cup new, threw |-> "",
             value |-> One(new)]
    ELSE IF \E f \in files : f.id = input.id
    THEN [rows |-> files, threw |-> "23505", value |-> NoRow]
    ELSE IF ~ \E p \in projs : p.id = input.projectId
    THEN [rows |-> files, threw |-> "23503", value |-> NoRow]
    ELSE [rows |-> files \cup {InsertedFile(input, t)}, threw |-> "",
          value |-> InsertedFile(input, t)]

\* a loop that counts the rows it creates, not the inputs it applies
RECURSIVE UpsertManyLoopNewRows(_, _, _, _, _)
UpsertManyLoopNewRows(projs, files, input, t, changedRows) ==
    IF input = <<>>
    THEN [rows |-> files, threw |-> "", value |-> changedRows]
    ELSE IF ~ CanAccessProject(projs, input[1].projectId, input[1].userId)
    THEN UpsertManyLoopNewRows(projs, files, Tail(input), t, changedRows)
    ELSE LET r == InsertFileOnConflict(projs, files, input[1], t) IN
         IF r.threw # ""
         THEN [rows |-> files, threw |-> r.threw, value |-> 0]
         ELSE UpsertManyLoopNewRows(projs, r.rows, Tail(input), t,
                                    changedRows + Cardinality(r.rows)
                                                - Cardinality(files))

\* the loop of upsertMany inside db.transaction: inputs in list order, a
\* foreign project skipped, a store error ending the loop.
\* upsertMany returns the transaction's promise without awaiting it, so its
\* catch block never sees a rejection: the store's error code is thrown as is.
RECURSIVE UpsertManyLoop(_, _, _, _, _)
UpsertManyLoop(projs, files, input, t, changedRows) ==
    IF input = <<>>
    THEN [rows |-> files, threw |-> "", value |-> changedRows]
    ELSE IF ~ CanAccessProject(projs, input[1].projectId, input[1].userId)
    THEN UpsertManyLoop(projs, files, Tail(input), t, changedRows)
    ELSE LET r == InsertFileOnConflict(projs, files, input[1], t) IN
         IF r.threw # ""
         THEN [rows |-> files, threw |-> r.threw, value |-> 0]
         ELSE UpsertManyLoop(projs, r.rows, Tail(input), t, changedRows + 1)

\* a batch that one foreign input turns into nothing
UpsertManyAllOrNothing(projs, files, input, t) ==
    IF \E i \in 1..Len(input) :
           ~ CanAccessProject(projs, input[i].projectId, input[i].userId)
    THEN [rows |-> files, threw |-> "", value |-> 0]
    ELSE LET r == UpsertManyLoop(projs, files, input, t, 0)
         IN IF r.threw # "" THEN [r EXCEPT !.rows = files] ELSE r

\* db.transaction: a loop that throws leaves the rows as they were before it
UpsertMany(projs, files, input, t) ==
    IF Len(input) = 0
    THEN [rows |-> files, threw |-> "", value |-> 0]
    ELSE LET r == UpsertManyLoop(projs, files, input, t, 0)
         IN IF r.threw # "" THEN [r EXCEPT !.rows = files] ELSE r

DeleteByPathTargets(projs, files, input) ==
    {f \in files : f.projectId = input.projectId /\ f.path = input.path
                   /\ CanAccessProject(projs, input.projectId, input.userId)}

DeleteByPath(projs, files, input) ==
    LET hit == DeleteByPathTargets(projs, files, input)
    IN [rows |-> files \ hit, value |-> hit # {}]

\* ======================================================= Command validator
\* A JSON value is a tagged record; a text is a sequence of characters.
JNull == [t |-> "null"]
JNumber == [t |-> "number"]
JArray == [t |-> "array"]
JString(s) == [t |-> "string", s |-> s]
JData(content) == [t |-> "object", content |-> content]
JEnvelope(type, data) == [t |-> "object", type |-> type, data |-> data]

CLIENT_MESSAGE_TYPES ==
    {"start_generation", "stop_generation", "user_message", "get_state",
     "get_preview_url"}

RECURSIVE TrimStart(_)
TrimStart(s) ==
    IF s # <<>> /\ Head(s) = Space THEN TrimStart(Tail(s)) ELSE s

RECURSIVE TrimEnd(_)
TrimEnd(s) ==
    IF s # <<>> /\ s[Len(s)] = Space THEN TrimEnd(SubSeq(s, 1, Len(s) - 1)) ELSE s

Trim(s) == TrimEnd(TrimStart(s))

\* a type check that takes a missing or non-string type for an unknown one
UnknownForNoType(code, message) ==
    [code |-> IF message = <<"WebSocket message type must be a string">>
              THEN "unknown_message_type" ELSE code,
     message |-> message, ok |-> FALSE]

ToError(code, message) == [code |-> code, message |-> message, ok |-> FALSE]

\* toPlainObject: typeof value === "object", not null, not an array
IsPlainObject(v) == v.t = "object"

\* parseMessagePayload: text (decoded first when binary) goes through
\* JSON.parse, which throws on malformed text; any other value passes as is
ParseThrows(raw) == raw.enc \in {"text", "binary"} /\ ~ raw.json

\* a content schema without the trim
UserMessageDataUntrimmed(data) ==
    IF data.content = None \/ data.content[1].t # "string"
    THEN [content |-> <<>>, success |-> FALSE]
    ELSE [content |-> data.content[1].s,
          success |-> Len(data.content[1].s) >= 1]

\* userMessageDataSchema.safeParse(data)
UserMessageData(data) ==
    IF data.content = None \/ data.content[1].t # "string"
    THEN [content |-> <<>>, success |-> FALSE]
    ELSE LET c == Trim(data.content[1].s)
         IN [content |-> c, success |-> Len(c) >= 1]

validateClientMessage(raw) ==
    IF ParseThrows(raw)
    THEN ToError("invalid_message",
                 <<"WebSocket message must be valid JSON and follow the { type, data } shape">>)
    ELSE IF ~ IsPlainObject(raw.v)
    THEN ToError("invalid_message",
                 <<"WebSocket message must be an object with a string type field">>)
    ELSE IF raw.v.type = None \/ raw.v.type[1].t # "string"
    THEN ToError("invalid_message", <<"WebSocket message type must be a string">>)
    ELSE IF raw.v.type[1].s \notin CLIENT_MESSAGE_TYPES
    THEN ToError("unknown_message_type",
                 <<"Unknown message type", raw.v.type[1].s>>)
    ELSE LET type == raw.v.type[1].s
             normalizedData == IF raw.v.data = None \/ raw.v.data[1] = JNull
                               THEN JData(None) ELSE raw.v.data[1]
         IN IF ~ IsPlainObject(normalizedData)
            THEN ToError("invalid_message_data",
                         <<"WebSocket message data must be an object">>)
            ELSE IF type # "user_message"
            THEN [content |-> <<>>, type |-> type, ok |-> TRUE]
            ELSE LET r == UserMessageData(normalizedData)
                 IN IF ~ r.success
                    THEN ToError("invalid_message_data",
                                 <<"user_message requires data.content as a non-empty string">>)
                    ELSE [content |-> r.content, type |-> type, ok |-> TRUE]

\* ====================================================== Session controller
NoSession == NoRow
NoData == NoRow
LocInit == [content |-> <<>>, raw |-> NoRow, project |-> NoRow,
            agentState |-> NoRow, history |-> <<>>]

ErrorMessage(code, message) ==
    [code |-> code, type |-> "error", message |-> message]
AccessDenied ==
    ErrorMessage("project_access_denied",
                 <<"Project not found or not accessible for this user">>)
StateNotFound == ErrorMessage("internal_error", <<"Agent state not found">>)
AgentConnected(projectId) == [projectId |-> projectId,
                              type |-> "agent_connected"]
PreviewUrl(previewUrl) == [previewUrl |-> previewUrl, type |-> "preview_url"]
StateUpdate(currentState, currentPhase, totalPhases, generatedFiles, previewUrl) ==
    [previewUrl |-> previewUrl, currentState |-> currentState,
     currentPhase |-> currentPhase, generatedFiles |-> generatedFiles,
     type |-> "state_update", totalPhases |-> totalPhases]

\* the `connection` a callback works with: the cached session, or the one
\* ensureAuthorizedConnection builds from ws.data
NewConnection(c) ==
    [projectId |-> wsData[c].projectId, userId |-> wsData[c].userId,
     connectionId |-> c]
Connection(c) ==
    IF wsConnections[c] # NoSession THEN wsConnections[c] ELSE NewConnection(c)

\* sendServerMessage / ws.close / return of a callback; a callback's locals
\* end with it, and `raw` stays as the record of the last payload received
Send(c, m) == sent' = [sent EXCEPT ![c] = Append(@, m)]
Return(c) ==
    /\ pc' = [pc EXCEPT ![c] = "idle"]
    /\ loc' = [loc EXCEPT ![c] = [LocInit EXCEPT !.raw = loc[c].raw]]
Goto(c, label) == pc' = [pc EXCEPT ![c] = label]
\* a refusal that closes the socket without saying why
RejectUnexplained(c, m, code) ==
    /\ closedWith' = [closedWith EXCEPT ![c] = code]
    /\ Return(c)
    /\ UNCHANGED sent
Reject(c, m, code) ==
    /\ Send(c, m)
    /\ closedWith' = [closedWith EXCEPT ![c] = code]
    /\ Return(c)
Reply(c, m) == Send(c, m) /\ Return(c) /\ UNCHANGED closedWith

Idle(c) == pc[c] = "idle" /\ wsData[c] # NoData /\ closedWith[c] = NotClosed

\* the transport accepts a socket on /ws/:projectId for an authenticated user
Upgrade(c, projectId, userId) ==
    /\ wsData[c] = NoData /\ pc[c] = "idle"
    /\ wsData' = [wsData EXCEPT ![c] = [projectId |-> projectId, userId |-> userId]]
    /\ sent' = [sent EXCEPT ![c] = <<>>]
    /\ UNCHANGED <<db, now, call, ret, wsConnections, pc, loc, closedWith>>

\* websocketLifecycle.open begins: the transport calls it once, when it has
\* accepted the socket and before any message of that socket
OpenStart(c) ==
    /\ Idle(c) /\ wsConnections[c] = NoSession
    /\ Goto(c, "open")
    /\ sent' = [sent EXCEPT ![c] = <<>>]
    /\ UNCHANGED <<db, now, call, ret, wsConnections, wsData, loc, closedWith>>

\* websocketLifecycle.message begins with a raw payload
MessageStart(c, raw) ==
    /\ Idle(c)
    /\ Goto(c, "message")
    /\ loc' = [loc EXCEPT ![c] = [LocInit EXCEPT !.raw = raw]]
    /\ sent' = [sent EXCEPT ![c] = <<>>]
    /\ UNCHANGED <<db, now, call, ret, wsConnections, wsData, closedWith>>

\* an authorization that looks the project up by its id only
ProjectKnown(c) ==
    \/ wsConnections[c] # NoSession
    \/ \E p \in projects : p.id = NewConnection(c).projectId

\* ensureAuthorizedConnection: TRUE when the callback may go on
Authorized(c) ==
    \/ wsConnections[c] # NoSession
    \/ GetByIdForUser(projects, NewConnection(c).projectId,
                      NewConnection(c).userId) # NoRow

\* a registry with room for one session, shared by every connection
CachedForAll(c) ==
    wsConnections' = [d \in Conns |-> Connection(c)]

Cached(c) ==
    wsConnections' = [wsConnections EXCEPT ![c] = Connection(c)]

\* open: ensureAuthorizedConnection, then agent_connected
Open(c) ==
    /\ pc[c] = "open"
    /\ IF Authorized(c)
       THEN /\ Cached(c)
            /\ Reply(c, AgentConnected(Connection(c).projectId))
       ELSE /\ Reject(c, AccessDenied, CloseForbidden)
            /\ UNCHANGED wsConnections
    /\ UNCHANGED <<db, now, call, ret, wsData>>

FirstLabel(type) ==
    CASE type = "get_state" -> "state:project"
      [] type = "get_preview_url" -> "preview:project"
      [] type = "start_generation" -> "start:project"
      [] type = "stop_generation" -> "stop:agent"
      [] type = "user_message" -> "user:agent"

\* a message callback that closes the socket on a payload it refuses
MessageStrict(c) ==
    /\ pc[c] = "message"
    /\ IF ~ Authorized(c)
       THEN /\ Reject(c, AccessDenied, CloseForbidden)
            /\ UNCHANGED wsConnections
       ELSE /\ Cached(c)
            /\ LET v == validateClientMessage(loc[c].raw) IN
               IF ~ v.ok
               THEN Reject(c, ErrorMessage(v.code, v.message), CloseConflict)
               ELSE /\ Goto(c, FirstLabel(v.type))
                    /\ loc' = [loc EXCEPT ![c].content = v.content]
                    /\ UNCHANGED <<sent, closedWith>>
    /\ UNCHANGED <<db, now, call, ret, wsData>>

\* a message callback that validates the payload before it asks who sent it
MessageValidatesFirst(c) ==
    /\ pc[c] = "message"
    /\ LET v == validateClientMessage(loc[c].raw) IN
       IF ~ v.ok
       THEN /\ Reply(c, ErrorMessage(v.code, v.message))
            /\ UNCHANGED wsConnections
       ELSE IF ~ Authorized(c)
       THEN /\ Reject(c, AccessDenied, CloseForbidden)
            /\ UNCHANGED wsConnections
       ELSE /\ Cached(c)
            /\ Goto(c, FirstLabel(v.type))
            /\ loc' = [loc EXCEPT ![c].content = v.content]
            /\ UNCHANGED <<sent, closedWith>>
    /\ UNCHANGED <<db, now, call, ret, wsData>>

\* message: ensureAuthorizedConnection, validateClientMessage, the switch
Message(c) ==
    /\ pc[c] = "message"
    /\ IF ~ Authorized(c)
       THEN /\ Reject(c, AccessDenied, CloseForbidden)
            /\ UNCHANGED wsConnections
       ELSE /\ Cached(c)
            /\ LET v == validateClientMessage(loc[c].raw) IN
               IF ~ v.ok
               THEN Reply(c, ErrorMessage(v.code, v.message))
               ELSE /\ Goto(c, FirstLabel(v.type))
                    /\ loc' = [loc EXCEPT ![c].content = v.content]
                    /\ UNCHANGED <<sent, closedWith>>
    /\ UNCHANGED <<db, now, call, ret, wsData>>

\* a close callback that clears the whole registry
CloseEvictsAll(c) ==
    /\ pc[c] = "idle" /\ wsData[c] # NoData
    /\ wsConnections' = [d \in Conns |-> NoSession]
    /\ wsData' = [wsData EXCEPT ![c] = NoData]
    /\ closedWith' = [closedWith EXCEPT ![c] = NotClosed]
    /\ loc' = [loc EXCEPT ![c] = LocInit]
    /\ UNCHANGED <<db, now, call, ret, pc, sent>>

\* websocketLifecycle.close: the registry entry goes, and the socket with it;
\* what the socket was sent last stays on record until its id is taken again
Close(c) ==
    /\ pc[c] = "idle" /\ wsData[c] # NoData
    /\ wsConnections' = [wsConnections EXCEPT ![c] = NoSession]
    /\ wsData' = [wsData EXCEPT ![c] = NoData]
    /\ closedWith' = [closedWith EXCEPT ![c] = NotClosed]
    /\ loc' = [loc EXCEPT ![c] = LocInit]
    /\ UNCHANGED <<db, now, call, ret, pc, sent>>

\* ---------------------------------------------------------- the handlers
\* a handler that trusts the cached session and reads the project by id only
ReadProjectOfSession(c) ==
    IF wsConnections[c] # NoSession
    THEN One(AnyOwner(projects, Connection(c).projectId, Connection(c).userId))
    ELSE GetByIdForUser(projects, Connection(c).projectId, Connection(c).userId)

ReadProject(c) ==
    GetByIdForUser(projects, Connection(c).projectId, Connection(c).userId)
ReadAgentState(c) ==
    GetByProjectForUser(projects, agentStates, Connection(c).projectId,
                        Connection(c).userId)
CanAccess(c) ==
    CanAccessProject(projects, Connection(c).projectId, Connection(c).userId)

\* sendStateUpdate, sendPreviewUrl, handleStartGeneration: getByIdForUser
LoadProject(c, label, next) ==
    /\ pc[c] = label
    /\ IF ReadProject(c) = NoRow
       THEN Reject(c, AccessDenied, CloseForbidden)
       ELSE /\ Goto(c, next)
            /\ loc' = [loc EXCEPT ![c].project = ReadProject(c)]
            /\ UNCHANGED <<sent, closedWith>>
    /\ UNCHANGED <<db, now, call, ret, wsConnections, wsData>>

\* a snapshot that takes every field from the RunState when there is one
SnapshotOfRun(project, agentState) ==
    IF agentState = NoRow
    THEN StateUpdate(project.status, NullPhase, 0, <<>>, project.previewUrl)
    ELSE StateUpdate(agentState.currentState, agentState.currentPhase,
                     Len(agentState.phases), agentState.generatedFiles,
                     agentState.previewUrl)

\* the state_update of sendStateUpdate (the ?? fallbacks to the project)
Snapshot(project, agentState) ==
    IF agentState = NoRow
    THEN StateUpdate(project.status, NullPhase, 0, <<>>, project.previewUrl)
    ELSE StateUpdate(agentState.currentState, agentState.currentPhase,
                     Len(agentState.phases), agentState.generatedFiles,
                     Coalesce(agentState.previewUrl, project.previewUrl))

\* sendStateUpdate: getByProjectForUser, then the state_update
SendStateUpdate(c) ==
    /\ pc[c] = "state:agent"
    /\ Reply(c, Snapshot(loc[c].project, ReadAgentState(c)))
    /\ UNCHANGED <<db, now, call, ret, wsConnections, wsData>>

\* a preview_url that prefers the RunState's previewUrl
SendPreviewUrlOfRun(c) ==
    /\ pc[c] = "preview:project"
    /\ IF ReadProject(c) = NoRow
       THEN Reject(c, AccessDenied, CloseForbidden)
       ELSE Reply(c, PreviewUrl(IF ReadAgentState(c) = NoRow
                                THEN ReadProject(c).previewUrl
                                ELSE ReadAgentState(c).previewUrl))
    /\ UNCHANGED <<db, now, call, ret, wsConnections, wsData>>

\* sendPreviewUrl
SendPreviewUrl(c) ==
    /\ pc[c] = "preview:project"
    /\ IF ReadProject(c) = NoRow
       THEN Reject(c, AccessDenied, CloseForbidden)
       ELSE Reply(c, PreviewUrl(ReadProject(c).previewUrl))
    /\ UNCHANGED <<db, now, call, ret, wsConnections, wsData>>

\* a start guard that lets every run state through
AlwaysStartable(agentState) == TRUE

\* handleStartGeneration: getByProjectForUser and the two guards
StartGuardHolds(agentState) == agentState.currentState # "generating"

StartRead(c) ==
    /\ pc[c] = "start:agent"
    /\ LET agentState == ReadAgentState(c) IN
       IF agentState = NoRow
       THEN Reject(c, StateNotFound, CloseNotFound)
       ELSE IF ~ StartGuardHolds(agentState)
       THEN Reject(c, ErrorMessage("generation_in_progress",
                                   <<"Generation already in progress">>),
                   CloseConflict)
       ELSE /\ Goto(c, "start:access")
            /\ loc' = [loc EXCEPT ![c].agentState = agentState]
            /\ UNCHANGED <<sent, closedWith>>
    /\ UNCHANGED <<db, now, call, ret, wsConnections, wsData>>

\* a start that leaves the conversation as it was
StartInputKeepsHistory(c) ==
    [projectId |-> Connection(c).projectId, userId |-> Connection(c).userId,
     id |-> loc[c].agentState.id, previewUrl |-> None, sandboxId |-> None,
     currentState |-> "generating", currentPhase |-> 0, phases |-> Some(<<>>),
     generatedFiles |-> Some(<<>>), conversationHistory |-> None]

StartInput(c) ==
    [projectId |-> Connection(c).projectId, userId |-> Connection(c).userId,
     id |-> loc[c].agentState.id, previewUrl |-> None, sandboxId |-> None,
     currentState |-> "generating", currentPhase |-> 0, phases |-> Some(<<>>),
     generatedFiles |-> Some(<<>>), conversationHistory |-> Some(<<>>)]

StartReply(c) ==
    StateUpdate("generating", 0, 0, <<>>, loc[c].agentState.previewUrl)

\* a stop guard that lets every run state through
AlwaysStoppable(agentState) == TRUE

\* handleStopGeneration: getByProjectForUser and the two guards
StopGuardHolds(agentState) == agentState.currentState = "generating"

StopRead(c) ==
    /\ pc[c] = "stop:agent"
    /\ LET agentState == ReadAgentState(c) IN
       IF agentState = NoRow
       THEN Reject(c, StateNotFound, CloseNotFound)
       ELSE IF ~ StopGuardHolds(agentState)
       THEN Reject(c, ErrorMessage("generation_not_in_progress",
                                   <<"Generation not in progress">>),
                   CloseConflict)
       ELSE /\ Goto(c, "stop:access")
            /\ loc' = [loc EXCEPT ![c].agentState =
                          [agentState EXCEPT !.currentState = "idle",
                                             !.generatedFiles = <<>>,
                                             !.currentPhase = NullPhase]]
            /\ UNCHANGED <<sent, closedWith>>
    /\ UNCHANGED <<db, now, call, ret, wsConnections, wsData>>

\* a stop that also writes the locally cleared generatedFiles
StopInputClearsFiles(c) ==
    [projectId |-> Connection(c).projectId, userId |-> Connection(c).userId,
     id |-> loc[c].agentState.id, previewUrl |-> None, sandboxId |-> None,
     currentState |-> "idle", currentPhase |-> NullPhase,
     phases |-> Some(<<>>),
     generatedFiles |-> Some(loc[c].agentState.generatedFiles),
     conversationHistory |-> None]

\* a stop that does not pass `phases`
StopInputKeepsPhases(c) ==
    [projectId |-> Connection(c).projectId, userId |-> Connection(c).userId,
     id |-> loc[c].agentState.id, previewUrl |-> None, sandboxId |-> None,
     currentState |-> "idle", currentPhase |-> NullPhase, phases |-> None,
     generatedFiles |-> None, conversationHistory |-> None]

StopInput(c) ==
    [projectId |-> Connection(c).projectId, userId |-> Connection(c).userId,
     id |-> loc[c].agentState.id, previewUrl |-> None, sandboxId |-> None,
     currentState |-> "idle", currentPhase |-> NullPhase,
     phases |-> Some(<<>>), generatedFiles |-> None,
     conversationHistory |-> None]

\* a stop reply built from the handler's local copy only
StopReplyLocal(c, stopped) ==
    StateUpdate("idle", NullPhase, 0, loc[c].agentState.generatedFiles,
                loc[c].agentState.previewUrl)

\* `stopped` is the upsert's result, null when the project is not accessible
StopReply(c, stopped) ==
    LET from == IF stopped = NoRow THEN loc[c].agentState ELSE stopped
    IN StateUpdate("idle", NullPhase, 0, from.generatedFiles,
                   IF stopped = NoRow THEN loc[c].agentState.previewUrl
                   ELSE Coalesce(stopped.previewUrl, loc[c].agentState.previewUrl))

\* handleUserMessage: getByProjectForUser, then the new history
UserEntry(content, t) == [content |-> content, role |-> "user",
                          timestamp |-> t]

\* a user_message that starts a run state when there is none
UserReadOrCreate(c) ==
    /\ pc[c] = "user:agent"
    /\ LET found == ReadAgentState(c)
           agentState ==
               IF found # NoRow THEN found
               ELSE [projectId |-> Connection(c).projectId, id |-> "s1",
                     previewUrl |-> NULL, sandboxId |-> NULL,
                     updatedAt |-> now, currentState |-> "idle",
                     currentPhase |-> NullPhase, phases |-> <<>>,
                     generatedFiles |-> <<>>, conversationHistory |-> <<>>] IN
       /\ Goto(c, "user:access")
       /\ loc' = [loc EXCEPT
                    ![c].agentState = agentState,
                    ![c].history = Append(agentState.conversationHistory,
                                          UserEntry(loc[c].content, now))]
       /\ UNCHANGED <<sent, closedWith>>
    /\ UNCHANGED <<db, now, call, ret, wsConnections, wsData>>

UserRead(c) ==
    /\ pc[c] = "user:agent"
    /\ LET agentState == ReadAgentState(c) IN
       IF agentState = NoRow
       THEN Reject(c, StateNotFound, CloseNotFound)
       ELSE /\ Goto(c, "user:access")
            /\ loc' = [loc EXCEPT
                         ![c].agentState = agentState,
                         ![c].history = Append(agentState.conversationHistory,
                                               UserEntry(loc[c].content, now))]
            /\ UNCHANGED <<sent, closedWith>>
    /\ UNCHANGED <<db, now, call, ret, wsConnections, wsData>>

\* a user_message that resets the run context
UserInputResets(c) ==
    [projectId |-> Connection(c).projectId, userId |-> Connection(c).userId,
     id |-> loc[c].agentState.id, previewUrl |-> None, sandboxId |-> None,
     currentState |-> loc[c].agentState.currentState,
     currentPhase |-> loc[c].agentState.currentPhase, phases |-> Some(<<>>),
     generatedFiles |-> Some(<<>>),
     conversationHistory |-> Some(loc[c].history)]

UserInput(c) ==
    [projectId |-> Connection(c).projectId, userId |-> Connection(c).userId,
     id |-> loc[c].agentState.id, previewUrl |-> None, sandboxId |-> None,
     currentState |-> loc[c].agentState.currentState,
     currentPhase |-> loc[c].agentState.currentPhase, phases |-> None,
     generatedFiles |-> None, conversationHistory |-> Some(loc[c].history)]

UserReply(c, updatedState) ==
    LET from == IF updatedState = NoRow THEN loc[c].agentState ELSE updatedState
    IN StateUpdate(from.currentState,
                   IF from.currentPhase = NullPhase
                   THEN loc[c].agentState.currentPhase ELSE from.currentPhase,
                   Len(from.phases), from.generatedFiles,
                   IF updatedState = NoRow THEN loc[c].agentState.previewUrl
                   ELSE Coalesce(updatedState.previewUrl,
                                 loc[c].agentState.previewUrl))

\* a start that writes the phase the run had
HandlerInputKeepsPhase(c) ==
    CASE pc[c] \in {"start:access", "start:upsert"} ->
             [StartInput(c) EXCEPT !.currentPhase = loc[c].agentState.currentPhase]
      [] pc[c] \in {"stop:access", "stop:upsert"} -> StopInput(c)
      [] pc[c] \in {"user:access", "user:upsert"} -> UserInput(c)

HandlerInput(c) ==
    CASE pc[c] \in {"start:access", "start:upsert"} -> StartInput(c)
      [] pc[c] \in {"stop:access", "stop:upsert"} -> StopInput(c)
      [] pc[c] \in {"user:access", "user:upsert"} -> UserInput(c)

HandlerReply(c, state) ==
    CASE pc[c] \in {"start:access", "start:upsert"} -> StartReply(c)
      [] pc[c] \in {"stop:access", "stop:upsert"} -> StopReply(c, state)
      [] pc[c] \in {"user:access", "user:upsert"} -> UserReply(c, state)

\* a handler that answers before its write has run
HandlerAnswersFirst(c, label, next) ==
    /\ pc[c] = label
    /\ IF CanAccess(c)
       THEN /\ Goto(c, next) /\ Send(c, HandlerReply(c, NoRow))
            /\ UNCHANGED <<loc, closedWith>>
       ELSE Reply(c, HandlerReply(c, NoRow))
    /\ UNCHANGED <<db, now, call, ret, wsConnections, wsData>>

\* upsertForProject called by a handler: canAccessProject; a null result
\* sends the handler on to its reply
HandlerAccess(c, label, next) ==
    /\ pc[c] = label
    /\ IF CanAccess(c)
       THEN Goto(c, next) /\ UNCHANGED <<loc, sent, closedWith>>
       ELSE Reply(c, HandlerReply(c, NoRow))
    /\ UNCHANGED <<db, now, call, ret, wsConnections, wsData>>

\* upsertForProject called by a handler: the insert; a store error reaches
\* the catch of websocketLifecycle.message
HandlerUpsert(c, label) ==
    /\ pc[c] = label
    /\ LET r == InsertStateOnConflict(projects, agentStates, HandlerInput(c), now) IN
       IF r.threw # ""
       THEN /\ Reply(c, ErrorMessage("internal_error",
                                     <<"Failed to handle websocket message">>))
            /\ UNCHANGED agentStates
       ELSE /\ agentStates' = r.rows
            /\ Reply(c, HandlerReply(c, r.value))
    /\ UNCHANGED <<projects, projectFiles, now, call, ret, wsConnections, wsData>>

\* ===================================== repository calls from the REST side
\* A call's first statement runs when the call is made; `call` holds an
\* upsert between its ownership check and its insert; `ret` holds what the
\* call returned (or threw) until the route has answered.
NoCall == [op |-> "none"]
NoReturn == [op |-> "none"]
RestIdle == call = NoCall /\ ret = NoReturn
Running(op) == call # NoCall /\ call.op = op
Returns(op, input, threw, value) ==
    /\ ret' = [input |-> input, threw |-> threw, value |-> value, op |-> op]
    /\ call' = NoCall

\* ProjectsRepository.getByIdForUser
GetProject(input) ==
    /\ RestIdle
    /\ Returns("getByIdForUser", input, "",
               GetByIdForUser(projects, input.projectId, input.userId))
    /\ UNCHANGED <<db, now, wsvars>>

\* ProjectsRepository.create: the store's error is thrown as it is
Create(input) ==
    /\ RestIdle
    /\ LET r == CreateProject(projects, input, now) IN
       /\ projects' = r.rows
       /\ Returns("create", input, r.threw, r.value)
    /\ UNCHANGED <<projectFiles, agentStates, now, wsvars>>

\* ProjectsRepository.updateForUser
Update(input) ==
    /\ RestIdle
    /\ LET r == UpdateForUser(projects, input.projectId, input.userId,
                              input.patch, now) IN
       /\ projects' = r.rows
       /\ Returns("updateForUser", input, "", r.value)
    /\ UNCHANGED <<projectFiles, agentStates, now, wsvars>>

\* ProjectsRepository.deleteForUser
Delete(input) ==
    /\ RestIdle
    /\ LET r == DeleteForUser(projects, projectFiles, agentStates,
                              input.projectId, input.userId) IN
       /\ projects' = r.projects
       /\ projectFiles' = r.projectFiles
       /\ agentStates' = r.agentStates
       /\ Returns("deleteForUser", input, "", r.value)
    /\ UNCHANGED <<now, wsvars>>

\* ProjectFilesRepository.listByProjectForUser
ListFiles(input) ==
    /\ RestIdle
    /\ Returns("listByProjectForUser", input, "",
               ListByProjectForUser(projects, projectFiles, input.projectId,
                                    input.userId))
    /\ UNCHANGED <<db, now, wsvars>>

\* upsertFile and upsertForProject: canAccessProject, null when it fails
UpsertCheck(op, input) ==
    /\ RestIdle
    /\ IF CanAccessProject(projects, input.projectId, input.userId)
       THEN call' = [input |-> input, op |-> op] /\ UNCHANGED ret
       ELSE Returns(op, input, "", NoRow)
    /\ UNCHANGED <<db, now, wsvars>>

\* ProjectFilesRepository.upsertFile: the insert
UpsertFile ==
    /\ Running("upsertFile")
    /\ LET r == InsertFileOnConflict(projects, projectFiles, call.input, now) IN
       /\ projectFiles' = r.rows
       /\ Returns(call.op, call.input, Translate(r.threw), r.value)
    /\ UNCHANGED <<projects, agentStates, now, wsvars>>

\* ProjectFilesRepository.upsertMany: one transaction
UpsertManyFiles(input) ==
    /\ RestIdle
    /\ LET r == UpsertMany(projects, projectFiles, input, now) IN
       /\ projectFiles' = r.rows
       /\ Returns("upsertMany", input, r.threw, r.value)
    /\ UNCHANGED <<projects, agentStates, now, wsvars>>

\* ProjectFilesRepository.deleteByPath
DeleteFile(input) ==
    /\ RestIdle
    /\ LET r == DeleteByPath(projects, projectFiles, input) IN
       /\ projectFiles' = r.rows
       /\ Returns("deleteByPath", input, "", r.value)
    /\ UNCHANGED <<projects, agentStates, now, wsvars>>

\* AgentStatesRepository.getByProjectForUser
GetAgentState(input) ==
    /\ RestIdle
    /\ Returns("getByProjectForUser", input, "",
               GetByProjectForUser(projects, agentStates, input.projectId,
                                   input.userId))
    /\ UNCHANGED <<db, now, wsvars>>

\* AgentStatesRepository.upsertForProject: the insert
UpsertAgentState ==
    /\ Running("upsertForProject")
    /\ LET r == InsertStateOnConflict(projects, agentStates, call.input, now) IN
       /\ agentStates' = r.rows
       /\ Returns(call.op, call.input, Translate(r.threw), r.value)
    /\ UNCHANGED <<projects, projectFiles, now, wsvars>>

\* AgentStatesRepository.resetForProject
ResetAgentState(input) ==
    /\ RestIdle
    /\ LET r == ResetForProject(projects, agentStates, input) IN
       /\ agentStates' = r.rows
       /\ Returns("resetForProject", input, "", r.value)
    /\ UNCHANGED <<projects, projectFiles, now, wsvars>>

\* the route hands the returned value to its client
Respond ==
    /\ ret # NoReturn
    /\ ret' = NoReturn
    /\ UNCHANGED <<db, now, call, wsvars>>

Quiet == RestIdle /\ \A c \in Conns : pc[c] = "idle"

\* the wall clock advances
Tick ==
    /\ now < MaxClock
    /\ now' = now + 1
    /\ UNCHANGED <<db, call, ret, wsvars>>

\* ------------------------------------------------------------------ inputs
NoPatch == [name |-> None, description |-> None, status |-> None,
            previewUrl |-> None, sandboxId |-> None]
ProjectInput(projectId, userId) ==
    [userId |-> userId, id |-> projectId, name |-> "app", description |-> None]
Key(projectId, userId) == [projectId |-> projectId, userId |-> userId]
PatchInput(projectId, userId, patch) ==
    [projectId |-> projectId, userId |-> userId, patch |-> patch]

Phase1 == [name |-> "phase-1", isLastPhase |-> FALSE]
AssistantEntry == [content |-> <<"o", "k">>, role |-> "assistant",
                   timestamp |-> 0]

\* a run in progress, every column set
RunningInput(id, projectId, userId) ==
    [projectId |-> projectId, userId |-> userId, id |-> id,
     previewUrl |-> Some("urlS"), sandboxId |-> Some("sb1"),
     currentState |-> "generating", currentPhase |-> 1,
     phases |-> Some(<<Phase1>>), generatedFiles |-> Some(<<"a.ts">>),
     conversationHistory |-> Some(<<AssistantEntry>>)]
\* only the required fields
BareInput(id, projectId, userId, currentState) ==
    [projectId |-> projectId, userId |-> userId, id |-> id,
     previewUrl |-> None, sandboxId |-> None, currentState |-> currentState,
     currentPhase |-> NullPhase, phases |-> None, generatedFiles |-> None,
     conversationHistory |-> None]

Command(type) ==
    [v |-> JEnvelope(Some(JString(type)), Some(JData(None))), enc |-> "text",
     json |-> TRUE]
UserMessage(content) ==
    [v |-> JEnvelope(Some(JString("user_message")),
                     Some(JData(Some(JString(content))))),
     enc |-> "text", json |-> TRUE]
NotJson == [v |-> JNull, enc |-> "text", json |-> FALSE]
Payloads ==
    {Command(t) : t \in CLIENT_MESSAGE_TYPES \ {"user_message"}}
    \cup {UserMessage(<<Space, "a", Space>>), UserMessage(<<"b">>),
          UserMessage(<<Space>>), NotJson, Command("totally_unknown")}

\* the bound on conversationHistory: no user_message arrives once a history
\* is MaxHistory long
HistoryRoom == \A s \in agentStates : Len(s.conversationHistory) < MaxHistory
Deliverable(raw) ==
    (validateClientMessage(raw).ok
     /\ validateClientMessage(raw).type = "user_message") => HistoryRoom

\* ---------------------------------------------------------- specifications
Init ==
    /\ projects = {} /\ projectFiles = {} /\ agentStates = {}
    /\ now = 0
    /\ call = NoCall
    /\ ret = NoReturn
    /\ wsConnections = [c \in Conns |-> NoSession]
    /\ wsData = [c \in Conns |-> NoData]
    /\ pc = [c \in Conns |-> "idle"]
    /\ loc = [c \in Conns |-> LocInit]
    /\ sent = [c \in Conns |-> <<>>]
    /\ closedWith = [c \in Conns |-> NotClosed]

\* the later statements of the repository calls in flight, and the answer
RestSteps == UpsertAgentState \/ Respond

\* the statements of the callbacks in flight
WsSteps(conns) ==
    \E c \in conns :
        \/ Open(c) \/ Message(c)
        \/ LoadProject(c, "state:project", "state:agent") \/ SendStateUpdate(c)
        \/ SendPreviewUrl(c)
        \/ LoadProject(c, "start:project", "start:agent") \/ StartRead(c)
        \/ HandlerAccess(c, "start:access", "start:upsert")
        \/ HandlerUpsert(c, "start:upsert")
        \/ StopRead(c)
        \/ HandlerAccess(c, "stop:access", "stop:upsert")
        \/ HandlerUpsert(c, "stop:upsert")
        \/ UserRead(c)
        \/ HandlerAccess(c, "user:access", "user:upsert")
        \/ HandlerUpsert(c, "user:upsert")

\* what arrives at the session controller: sockets on project p1
WsStarts(conns) ==
    \/ \E c \in conns, u \in Users : Upgrade(c, "p1", u)
    \/ \E c \in conns : OpenStart(c)
    \/ \E c \in conns, raw \in Payloads : Deliverable(raw) /\ MessageStart(c, raw)
    \/ \E c \in conns : Close(c)

\* the project is marked as running, with a preview of its own
MarkRunning == [NoPatch EXCEPT !.status = Some("running"), !.previewUrl = Some("urlP")]

\* the repository calls that surround the sessions of project p1
WsRestStarts ==
    \/ \E u \in Users : Create(ProjectInput("p1", u))
    \/ Update(PatchInput("p1", "userA", MarkRunning))
    \/ \E u \in Users : Delete(Key("p1", u))
    \/ \E u \in Users : UpsertCheck("upsertForProject", RunningInput("s1", "p1", u))
    \/ UpsertCheck("upsertForProject", BareInput("s2", "p1", "userA", "completed"))

\* Spec: callbacks and repository calls run one at a time
Next ==
    \/ Tick
    \/ Quiet /\ WsRestStarts
    \/ Quiet /\ WsStarts({"ws1"})
    \/ RestSteps
    \/ WsSteps({"ws1"})

Spec == Init /\ [][Next]_vars

\* ------------------------------------------ SpecRepo: the repositories alone
Rename == [NoPatch EXCEPT !.name = Some("renamed")]
FileInput(id, projectId, path, content, userId) ==
    [projectId |-> projectId, userId |-> userId, id |-> id, path |-> path,
     content |-> content]
PathKey(projectId, path, userId) ==
    [projectId |-> projectId, userId |-> userId, path |-> path]
PathSet == {Paths[i] : i \in 1..Len(Paths)}

\* batches of upsertMany: none, one input, and two inputs of two users
Batches ==
    {<<>>}
    \cup {<<FileInput("f1", p, "a.ts", "many", u)>> : p \in ProjectIds, u \in Users}
    \cup {<<FileInput("f1", "p1", "a.ts", "many", u),
            FileInput("f2", "p2", "b.ts", "many", w)>> : u, w \in Users}

ProjectStarts ==
    \/ \E p \in ProjectIds, u \in Users : Create(ProjectInput(p, u))
    \/ \E p \in ProjectIds, u \in Users : GetProject(Key(p, u))
    \/ \E p \in ProjectIds, u \in Users, patch \in {NoPatch, Rename} :
           Update(PatchInput(p, u, patch))
    \/ \E p \in ProjectIds, u \in Users : Delete(Key(p, u))

FileStarts ==
    \/ \E p \in ProjectIds, u \in Users : ListFiles(Key(p, u))
    \/ \E id \in FileIds, p \in ProjectIds, path \in PathSet, u \in Users :
           UpsertCheck("upsertFile", FileInput(id, p, path, "one", u))
    \/ \E batch \in Batches : UpsertManyFiles(batch)
    \/ \E p \in ProjectIds, path \in PathSet, u \in Users :
           DeleteFile(PathKey(p, path, u))

StateStarts ==
    \/ \E p \in ProjectIds, u \in Users : GetAgentState(Key(p, u))
    \/ \E id \in StateIds, p \in ProjectIds, u \in Users,
          currentState \in {"idle", "hijacked"} :
           UpsertCheck("upsertForProject", BareInput(id, p, u, currentState))
    \/ \E p \in ProjectIds, u \in Users : ResetAgentState(Key(p, u))

\* SpecRepo: the file and agent-state repositories over projects that come
\* and go
NextRepo ==
    \/ \E p \in ProjectIds, u \in Users : Create(ProjectInput(p, u))
    \/ \E p \in ProjectIds, u \in Users : Delete(Key(p, u))
    \/ FileStarts
    \/ StateStarts
    \/ UpsertFile
    \/ UpsertAgentState
    \/ Respond

SpecRepo == Init /\ [][NextRepo]_vars

\* SpecProjects: the projects repository, over projects that hold a file and
\* an agent state
NextProjects ==
    \/ ProjectStarts
    \/ \E k \in {<<"f1", "p1">>, <<"f2", "p2">>}, u \in Users :
           UpsertCheck("upsertFile", FileInput(k[1], k[2], "a.ts", "one", u))
    \/ \E k \in {<<"s1", "p1">>, <<"s2", "p2">>}, u \in Users :
           UpsertCheck("upsertForProject", BareInput(k[1], k[2], u, "idle"))
    \/ UpsertFile
    \/ UpsertAgentState
    \/ Respond

SpecProjects == Init /\ [][NextProjects]_vars

\* ================================================================== claims
Owns(userId, projectId) ==
    \E p \in projects : p.id = projectId /\ p.userId = userId
Foreign(userId, projectId) ==
    \E p \in projects : p.id = projectId /\ p.userId # userId
\* a repository call returns in this step
Returned(ops) == ret = NoReturn /\ ret' # NoReturn /\ ret'.op \in ops

\* C1: getByIdForUser, updateForUser and deleteForUser called for a project
\* the asserted user does not own return null, null and false, the same as
\* for an id that does not exist, and change no stored row.
C1_NonOwnerIsNotFound ==
    [][(/\ Returned({"getByIdForUser", "updateForUser", "deleteForUser"})
        /\ ~ Owns(ret'.input.userId, ret'.input.projectId))
       => /\ ret'.threw = ""
          /\ IF ret'.op = "deleteForUser" THEN ret'.value = FALSE
             ELSE ret'.value = NoRow
          /\ db' = db]_vars

C1_Witness ==
    /\ ret # NoReturn /\ ret.op = "updateForUser"
    /\ ret.input.patch = Rename /\ ret.value = NoRow
    /\ Foreign(ret.input.userId, ret.input.projectId)
    /\ \E f \in projectFiles : f.projectId = ret.input.projectId
    /\ \E a \in agentStates : a.projectId = ret.input.projectId

\* every input of a batch names a project its asserted user does not own
AllForeign(batch) ==
    \A i \in 1..Len(batch) : ~ Owns(batch[i].userId, batch[i].projectId)
NotOwner(r) ==
    IF r.op = "upsertMany" THEN AllForeign(r.input)
    ELSE ~ Owns(r.input.userId, r.input.projectId)
Refusal(op) ==
    CASE op = "listByProjectForUser" -> <<>>
      [] op = "upsertMany" -> 0
      [] op \in {"deleteByPath", "resetForProject"} -> FALSE
      [] OTHER -> NoRow

\* C2: a file or agent-state call whose asserted user does not own the
\* project returns [], null, null, 0, false, null, false and changes no
\* ProjectFile or RunState row.
C2_NonOwnerRefused ==
    [][(/\ Returned({"listByProjectForUser", "getByProjectForUser", "upsertFile",
                     "upsertMany", "deleteByPath", "upsertForProject",
                     "resetForProject"})
        /\ NotOwner(ret'))
       => /\ ret'.threw = ""
          /\ ret'.value = Refusal(ret'.op)
          /\ projectFiles' = projectFiles
          /\ agentStates' = agentStates]_vars

C2_Witness ==
    /\ ret # NoReturn /\ ret.op = "upsertForProject"
    /\ ret.input.currentState = "hijacked" /\ ret.value = NoRow
    /\ Foreign(ret.input.userId, ret.input.projectId)
    /\ \E f \in projectFiles : f.projectId = ret.input.projectId
    /\ \E a \in agentStates :
           a.projectId = ret.input.projectId /\ a.currentState = "idle"

\* ------------------------------------------------- claims on the commands
\* the callback of c is handling a valid command of this type
Handles(c, type) ==
    /\ pc[c] \notin {"idle", "open"}
    /\ validateClientMessage(loc[c].raw).ok
    /\ validateClientMessage(loc[c].raw).type = type
\* the last callback of c handled a valid command of this type, and is over
Handled(c, type) ==
    /\ pc[c] = "idle" /\ wsData[c] # NoData /\ loc[c].raw # NoRow
    /\ validateClientMessage(loc[c].raw).ok
    /\ validateClientMessage(loc[c].raw).type = type
\* the RunState row the connection's user can see
RunState(c) == ReadAgentState(c)
HasRunState(c, states) == RunState(c) # NoRow /\ RunState(c).currentState \in states
RunStates == {"idle", "generating", "completed"}
\* the callback returns in this step
Done(c) == pc[c] # "idle" /\ pc'[c] = "idle"
\* nothing sent, nothing closed
Silent(c) == sent'[c] = <<>> /\ closedWith'[c] = NotClosed
InProgress ==
    ErrorMessage("generation_in_progress", <<"Generation already in progress">>)
NotInProgress ==
    ErrorMessage("generation_not_in_progress", <<"Generation not in progress">>)
\* the handler ends with this one error and this close code, no row changed
Refused(c, m, code) ==
    /\ agentStates' = agentStates
    /\ pc'[c] \notin {"start:access", "start:upsert", "stop:access",
                      "stop:upsert", "user:access", "user:upsert"}
    /\ IF Done(c) THEN sent'[c] = <<m>> /\ closedWith'[c] = code
       ELSE Silent(c)
\* a step before the handler's write changes no row and sends nothing
Pending(c) == agentStates' = agentStates /\ Silent(c)
\* the rows of other projects stay
OthersKept(c) ==
    {s \in agentStates' : s.projectId # Connection(c).projectId}
        = {s \in agentStates : s.projectId # Connection(c).projectId}

\* C3: start_generation while the persisted RunState is generating is answered
\* by one generation_in_progress error and close code 4000, and no RunState
\* row changes; a start that succeeded leaves the RunState generating, so the
\* next start_generation is such a command.
C3_StartWhileGenerating ==
    [][\A c \in Conns :
        /\ (Handles(c, "start_generation") /\ HasRunState(c, {"generating"}))
           => Refused(c, InProgress, CloseConflict)
        /\ (/\ Handles(c, "start_generation") /\ Done(c)
            /\ sent'[c] # <<>> /\ sent'[c][1].type = "state_update")
           => (RunState(c)').currentState = "generating"]_vars

C3_Witness ==
    \E c \in Conns :
        /\ Handled(c, "start_generation")
        /\ sent[c] = <<InProgress>> /\ closedWith[c] = CloseConflict
        /\ HasRunState(c, {"generating"})
        /\ RunState(c).generatedFiles = <<>> /\ RunState(c).currentPhase = 0

\* C4: start_generation on a RunState that is not generating stores
\* generating, phase 0, empty phases, generatedFiles and conversationHistory,
\* keeps previewUrl and sandboxId, and answers with one state_update
\* (generating, 0, 0, [], the RunState's previewUrl).
C4_StartResetsRun ==
    [][\A c \in Conns :
        (Handles(c, "start_generation") /\ HasRunState(c, RunStates \ {"generating"}))
        => IF Done(c)
           THEN LET old == RunState(c)
                    new == RunState(c)' IN
                /\ new = [old EXCEPT !.currentState = "generating",
                                     !.currentPhase = 0,
                                     !.phases = <<>>,
                                     !.generatedFiles = <<>>,
                                     !.conversationHistory = <<>>,
                                     !.updatedAt = new.updatedAt]
                /\ OthersKept(c)
                /\ sent'[c] = <<StateUpdate("generating", 0, 0, <<>>, old.previewUrl)>>
                /\ closedWith'[c] = NotClosed
           ELSE Pending(c)]_vars

C4_Witness ==
    \E c \in Conns :
        /\ Handled(c, "start_generation")
        /\ sent[c] = <<StateUpdate("generating", 0, 0, <<>>, "urlS")>>
        /\ closedWith[c] = NotClosed
        /\ HasRunState(c, {"generating"})
        /\ RunState(c).conversationHistory = <<>> /\ RunState(c).phases = <<>>
        /\ RunState(c).sandboxId = "sb1" /\ RunState(c).previewUrl = "urlS"
        /\ \E p \in projects : p.previewUrl = "urlP"

\* a stop_generation on a generating RunState returns in this step
StopDone(c) ==
    Handles(c, "stop_generation") /\ HasRunState(c, {"generating"}) /\ Done(c)
\* the last callback of c was a stop_generation answered by this snapshot
Stopped(c, generatedFiles, previewUrl) ==
    /\ Handled(c, "stop_generation")
    /\ sent[c] = <<StateUpdate("idle", NullPhase, 0, generatedFiles, previewUrl)>>
    /\ closedWith[c] = NotClosed
    /\ RunState(c) # NoRow

\* C5: a stop_generation on a generating RunState stores idle and a null
\* phase, leaves previewUrl, sandboxId, conversationHistory and generatedFiles
\* as they were, and answers with one state_update (idle, null, 0, the stored
\* generatedFiles and previewUrl).
C5_StopKeepsContext ==
    [][\A c \in Conns :
        (Handles(c, "stop_generation") /\ HasRunState(c, {"generating"}))
        => IF Done(c)
           THEN LET old == RunState(c)
                    new == RunState(c)' IN
                /\ new.currentState = "idle" /\ new.currentPhase = NullPhase
                /\ new.previewUrl = old.previewUrl
                /\ new.sandboxId = old.sandboxId
                /\ new.conversationHistory = old.conversationHistory
                /\ new.generatedFiles = old.generatedFiles
                /\ OthersKept(c)
                /\ sent'[c] = <<StateUpdate("idle", NullPhase, 0,
                                            new.generatedFiles, new.previewUrl)>>
                /\ closedWith'[c] = NotClosed
           ELSE Pending(c)]_vars

C5_Witness ==
    \E c \in Conns :
        /\ Stopped(c, <<"a.ts">>, "urlS")
        /\ RunState(c).currentState = "idle"
        /\ RunState(c).generatedFiles = <<"a.ts">>
        /\ RunState(c).previewUrl = "urlS"

\* C6 as stated: after a successful stop_generation the stored generatedFiles
\* is empty and currentPhase null, previewUrl, sandboxId and
\* conversationHistory as before.
C6_StopClearsFiles ==
    [][\A c \in Conns :
        StopDone(c)
        => /\ (RunState(c)').generatedFiles = <<>>
           /\ (RunState(c)').currentPhase = NullPhase
           /\ (RunState(c)').previewUrl = RunState(c).previewUrl
           /\ (RunState(c)').sandboxId = RunState(c).sandboxId
           /\ (RunState(c)').conversationHistory = RunState(c).conversationHistory]_vars

\* C6: a successful stop_generation clears currentPhase only: the stored
\* generatedFiles, previewUrl, sandboxId and conversationHistory keep their
\* prior values.
C6_StopKeepsFiles ==
    [][\A c \in Conns :
        StopDone(c)
        => /\ (RunState(c)').generatedFiles = RunState(c).generatedFiles
           /\ (RunState(c)').currentPhase = NullPhase
           /\ (RunState(c)').previewUrl = RunState(c).previewUrl
           /\ (RunState(c)').sandboxId = RunState(c).sandboxId
           /\ (RunState(c)').conversationHistory = RunState(c).conversationHistory]_vars

C6_Witness ==
    \E c \in Conns :
        /\ Stopped(c, <<"a.ts">>, "urlS")
        /\ RunState(c).generatedFiles # <<>>
        /\ RunState(c).currentPhase = NullPhase
        /\ RunState(c).sandboxId = "sb1"
        /\ RunState(c).conversationHistory = <<AssistantEntry>>

\* C7 as stated: the stored phases after a successful stop_generation equal
\* the stored phases before it.
C7_StopKeepsPhases ==
    [][\A c \in Conns :
        StopDone(c) => (RunState(c)').phases = RunState(c).phases]_vars

\* C7: a successful stop_generation empties the stored phases, whatever they
\* were before it.
C7_StopClearsPhases ==
    [][\A c \in Conns : StopDone(c) => (RunState(c)').phases = <<>>]_vars

\* the stopped run is the one stored with a phase: only that run has files
C7_Witness ==
    \E c \in Conns :
        /\ Stopped(c, <<"a.ts">>, "urlS")
        /\ RunState(c).phases = <<>>

\* C8: stop_generation on a RunState that is not generating is answered by
\* one generation_not_in_progress error and close code 4000, and no RunState
\* row changes.
C8_StopWhileNotGenerating ==
    [][\A c \in Conns :
        (Handles(c, "stop_generation")
         /\ HasRunState(c, RunStates \ {"generating"}))
        => Refused(c, NotInProgress, CloseConflict)]_vars

C8_Witness ==
    \E c \in Conns :
        /\ Handled(c, "stop_generation")
        /\ sent[c] = <<NotInProgress>> /\ closedWith[c] = CloseConflict
        /\ HasRunState(c, {"completed"})

\* the content of a user_message payload as it was sent
RawContent(raw) == raw.v.data[1].content[1].s
Blank(s) == \A i \in 1..Len(s) : s[i] = Space
\* t is s without the white space at its two ends
IsTrimOf(t, s) ==
    /\ \E i \in 0..Len(s), j \in 0..Len(s) :
           /\ i + Len(t) + j = Len(s)
           /\ Blank(SubSeq(s, 1, i))
           /\ t = SubSeq(s, i + 1, i + Len(t))
           /\ Blank(SubSeq(s, Len(s) - j + 1, Len(s)))
    /\ t # <<>> => (t[1] # Space /\ t[Len(t)] # Space)

\* C9: a valid user_message on a project with a RunState appends one entry
\* (user, the trimmed content, a timestamp) to conversationHistory, keeps the
\* earlier entries and every other column, and answers with one state_update
\* that shows the stored row.
C9_UserMessageAppends ==
    [][\A c \in Conns :
        (Handles(c, "user_message") /\ HasRunState(c, RunStates))
        => IF Done(c)
           THEN LET old == RunState(c)
                    new == RunState(c)'
                    n == Len(old.conversationHistory) IN
                /\ Len(new.conversationHistory) = n + 1
                /\ SubSeq(new.conversationHistory, 1, n) = old.conversationHistory
                /\ new.conversationHistory[n + 1].role = "user"
                /\ IsTrimOf(new.conversationHistory[n + 1].content,
                            RawContent(loc[c].raw))
                /\ new.conversationHistory[n + 1].timestamp \in 0..now
                /\ new = [old EXCEPT !.conversationHistory = new.conversationHistory,
                                     !.updatedAt = new.updatedAt]
                /\ OthersKept(c)
                /\ sent'[c] = <<StateUpdate(new.currentState, new.currentPhase,
                                            Len(new.phases), new.generatedFiles,
                                            new.previewUrl)>>
                /\ closedWith'[c] = NotClosed
           ELSE Pending(c)]_vars

C9_Witness ==
    \E c \in Conns :
        /\ Handled(c, "user_message")
        /\ RawContent(loc[c].raw) = <<Space, "a", Space>>
        /\ HasRunState(c, {"generating"})
        /\ RunState(c).conversationHistory
               = <<AssistantEntry, UserEntry(<<"a">>, RunState(c).updatedAt)>>
        /\ RunState(c).currentPhase = 1 /\ RunState(c).phases = <<Phase1>>
        /\ sent[c] = <<StateUpdate("generating", 1, 1, <<"a.ts">>, "urlS")>>

\* C10: user_message and stop_generation on an owned project without a
\* RunState row are answered by one internal_error and close code 4004, and
\* no RunState row is created.
C10_NoRunState ==
    [][\A c \in Conns :
        (/\ Handles(c, "user_message") \/ Handles(c, "stop_generation")
         /\ Owns(Connection(c).userId, Connection(c).projectId)
         /\ RunState(c) = NoRow)
        => Refused(c, StateNotFound, CloseNotFound)]_vars

C10_Witness ==
    \E c \in Conns :
        /\ Handled(c, "user_message")
        /\ Owns(Connection(c).userId, Connection(c).projectId)
        /\ sent[c] = <<StateNotFound>> /\ closedWith[c] = CloseNotFound
        /\ agentStates = {}

\* the connection's user owns the connection's project
OwnsProject(c) == Owns(Connection(c).userId, Connection(c).projectId)

\* C11: start_generation from the owner on a project without a RunState row
\* inserts the row with currentState generating and currentPhase 0 and is
\* answered with a state_update.
C11_FirstStartCreates ==
    [][\A c \in Conns :
        (/\ Handles(c, "start_generation") /\ OwnsProject(c)
         /\ RunState(c) = NoRow /\ Done(c))
        => /\ (RunState(c)') # NoRow
           /\ (RunState(c)').currentState = "generating"
           /\ (RunState(c)').currentPhase = 0
           /\ Len(sent'[c]) = 1 /\ sent'[c][1].type = "state_update"]_vars

\* websocketLifecycle.open returns in this step
OpenDone(c) == pc[c] = "open" /\ pc'[c] = "idle"
Session(c) ==
    [projectId |-> wsData[c].projectId, userId |-> wsData[c].userId,
     connectionId |-> c]

\* C12: open for the project's owner sends one agent_connected with the
\* project id, does not close, and caches the session under the connection
\* id; open for anyone else (or for a project that does not exist) sends one
\* project_access_denied, closes with 4003 and caches nothing.
C12_OpenAuthorizes ==
    [][\A c \in Conns :
        OpenDone(c)
        => /\ db' = db
           /\ IF Owns(wsData[c].userId, wsData[c].projectId)
              THEN /\ sent'[c] = <<AgentConnected(wsData[c].projectId)>>
                   /\ closedWith'[c] = NotClosed
                   /\ wsConnections' = [wsConnections EXCEPT ![c] = Session(c)]
              ELSE /\ sent'[c] = <<AccessDenied>>
                   /\ closedWith'[c] = CloseForbidden
                   /\ wsConnections' = wsConnections
                   /\ wsConnections[c] = NoSession]_vars

\* the open of another user's project was refused
C12_Witness ==
    \E c \in Conns :
        /\ pc[c] = "idle" /\ wsData[c] # NoData /\ loc[c].raw = NoRow
        /\ Foreign(wsData[c].userId, wsData[c].projectId)
        /\ sent[c] = <<AccessDenied>> /\ closedWith[c] = CloseForbidden
        /\ wsConnections[c] = NoSession

\* the Project row of the connection, as its user sees it
OwnProject(c) == ReadProject(c)
\* the first of two nullable texts that is set
FirstSet(a, b) == IF a # NULL THEN a ELSE b

\* C13 as stated: get_state answers with the five fields of the RunState row
\* when there is one, and with the Project's status and previewUrl (null, 0,
\* []) only when there is none; it writes nothing.
C13_SnapshotOfRunOnly ==
    [][\A c \in Conns :
        (Handles(c, "get_state") /\ OwnsProject(c))
        => /\ db' = db
           /\ Done(c) =>
                sent'[c] =
                    << IF RunState(c) = NoRow
                       THEN StateUpdate(OwnProject(c).status, NullPhase, 0, <<>>,
                                        OwnProject(c).previewUrl)
                       ELSE StateUpdate(RunState(c).currentState,
                                        RunState(c).currentPhase,
                                        Len(RunState(c).phases),
                                        RunState(c).generatedFiles,
                                        RunState(c).previewUrl) >>]_vars

\* C13: get_state answers with one state_update and writes nothing. With a
\* RunState row, currentState, currentPhase, totalPhases and generatedFiles
\* are the row's, and previewUrl is the row's when it is set and the
\* Project's otherwise; without one, the answer is the Project's status and
\* previewUrl with a null phase, 0 phases and no files.
C13_SnapshotFallsBack ==
    [][\A c \in Conns :
        (Handles(c, "get_state") /\ OwnsProject(c))
        => /\ db' = db
           /\ closedWith'[c] = NotClosed
           /\ IF Done(c)
              THEN sent'[c] =
                    << IF RunState(c) = NoRow
                       THEN StateUpdate(OwnProject(c).status, NullPhase, 0, <<>>,
                                        OwnProject(c).previewUrl)
                       ELSE StateUpdate(RunState(c).currentState,
                                        RunState(c).currentPhase,
                                        Len(RunState(c).phases),
                                        RunState(c).generatedFiles,
                                        FirstSet(RunState(c).previewUrl,
                                                 OwnProject(c).previewUrl)) >>
              ELSE sent'[c] = <<>>]_vars

\* a RunState without a previewUrl was shown with the Project's
C13_Witness ==
    \E c \in Conns :
        /\ Handled(c, "get_state")
        /\ HasRunState(c, {"completed"}) /\ RunState(c).previewUrl = NULL
        /\ OwnProject(c).status = "running"
        /\ sent[c] = <<StateUpdate("completed", NullPhase, 0, <<>>, "urlP")>>

\* C14: get_preview_url answers with one preview_url that carries the
\* Project row's previewUrl (null when unset), whatever the RunState row
\* holds and whether it exists, and writes nothing.
C14_PreviewOfProject ==
    [][\A c \in Conns :
        (Handles(c, "get_preview_url") /\ OwnsProject(c))
        => /\ db' = db
           /\ closedWith'[c] = NotClosed
           /\ IF Done(c)
              THEN sent'[c] = <<PreviewUrl(OwnProject(c).previewUrl)>>
              ELSE sent'[c] = <<>>]_vars

\* the RunState has a previewUrl of its own and the Project has none
C14_Witness ==
    \E c \in Conns :
        /\ Handled(c, "get_preview_url")
        /\ sent[c] = <<PreviewUrl(NULL)>>
        /\ RunState(c) # NoRow /\ RunState(c).previewUrl = "urlS"

\* ------------------------------------ SpecValidate: the command validator
\* validateClientMessage applied to a payload
Validate(raw) ==
    /\ RestIdle
    /\ Returns("validateClientMessage", raw, "", validateClientMessage(raw))
    /\ UNCHANGED <<db, now, wsvars>>

\* payloads: every shape of type, data and content, as text, as binary and as
\* a value the transport has already parsed
Texts ==
    {<<>>, <<Space>>, <<Space, Space>>, <<"a">>, <<Space, "a">>, <<"a", Space>>,
     <<Space, "a", Space>>, <<"a", Space, "b">>}
JContents ==
    {None, Some(JNull), Some(JNumber), Some(JArray)}
    \cup {Some(JString(t)) : t \in Texts}
JDatas ==
    {None, Some(JNull), Some(JNumber), Some(JArray), Some(JString(<<"a">>))}
    \cup {Some(JData(content)) : content \in JContents}
JTypes ==
    {None, Some(JNull), Some(JNumber), Some(JArray)}
    \cup {Some(JString(t)) : t \in CLIENT_MESSAGE_TYPES \cup {"totally_unknown", ""}}
JEnvelopes == {JEnvelope(type, data) : type \in JTypes, data \in JDatas}
JValues == {JNull, JNumber, JArray} \cup JEnvelopes
RawPayloads ==
    {[v |-> v, enc |-> enc, json |-> TRUE] :
        enc \in {"text", "binary"}, v \in JValues \cup {JString(<<"a">>)}}
    \cup {[v |-> JNull, enc |-> enc,
           json |-> FALSE] : enc \in {"text", "binary"}}
    \cup {[v |-> v, enc |-> "value", json |-> TRUE] : v \in JValues}

NextValidate ==
    \/ \E raw \in RawPayloads : Validate(raw)
    \/ Respond

SpecValidate == Init /\ [][NextValidate]_vars

\* the classes of a payload, read off the payload itself
Malformed(raw) == raw.enc # "value" /\ ~ raw.json
IsObject(v) == v.t = "object"
IsString(opt) == opt # None /\ opt[1].t = "string"
TypeOf(raw) == raw.v.type[1].s
Envelope(raw) == ~ Malformed(raw) /\ IsObject(raw.v) /\ IsString(raw.v.type)
Known(raw) == Envelope(raw) /\ TypeOf(raw) \in CLIENT_MESSAGE_TYPES
Absent(opt) == opt = None \/ opt[1].t = "null"
BadData(raw) == ~ Absent(raw.v.data) /\ ~ IsObject(raw.v.data[1])
BadContent(raw) ==
    \/ Absent(raw.v.data)
    \/ ~ IsString(raw.v.data[1].content)
    \/ Blank(raw.v.data[1].content[1].s)
Validated == Returned({"validateClientMessage"})
Rejected(r, code) == ~ r.value.ok /\ r.value.code = code

\* C15: validateClientMessage answers every payload, by these checks in this
\* order: text that is not JSON, or a value that is not a plain object, is
\* invalid_message; a string type outside the five commands is
\* unknown_message_type, and the message names the type; data that is present
\* and not a plain object is invalid_message_data; a user_message whose
\* content is not a string or is blank is invalid_message_data; anything else
\* is accepted with its type. Absent and null data count as {}.
C15_ValidationOrder ==
    [][Validated =>
        LET raw == ret'.input
            r == ret' IN
        /\ (Malformed(raw) \/ ~ IsObject(raw.v)) => Rejected(r, "invalid_message")
        /\ (Envelope(raw) /\ ~ Known(raw))
           => /\ Rejected(r, "unknown_message_type")
              /\ \E i \in 1..Len(r.value.message) : r.value.message[i] = TypeOf(raw)
        /\ (Known(raw) /\ BadData(raw)) => Rejected(r, "invalid_message_data")
        /\ (Known(raw) /\ ~ BadData(raw) /\ TypeOf(raw) = "user_message"
            /\ BadContent(raw))
           => Rejected(r, "invalid_message_data")
        /\ (Known(raw) /\ ~ BadData(raw)
            /\ (TypeOf(raw) = "user_message" => ~ BadContent(raw)))
           => /\ r.value.ok /\ r.value.type = TypeOf(raw)
              /\ TypeOf(raw) = "user_message"
                 => IsTrimOf(r.value.content, raw.v.data[1].content[1].s)
        /\ r.threw = ""]_vars

\* a user_message of white space only was refused for its data
C15_Witness ==
    /\ ret # NoReturn /\ ret.op = "validateClientMessage"
    /\ ret.input.enc = "binary" /\ Known(ret.input)
    /\ TypeOf(ret.input) = "user_message"
    /\ ret.input.v.data = Some(JData(Some(JString(<<Space, Space>>))))
    /\ Rejected(ret, "invalid_message_data")

\* a parsed object whose type is missing or is not one of the five commands
Untyped(raw) == ~ Malformed(raw) /\ IsObject(raw.v) /\ ~ Known(raw)

\* C16 as stated: an object whose type is missing, or is not one of the five
\* commands, is refused as unknown_message_type.
C16_UntypedIsUnknown ==
    [][(Validated /\ Untyped(ret'.input))
       => Rejected(ret', "unknown_message_type")]_vars

\* C16: an object whose type is missing or is not a string is refused as
\* invalid_message; one whose type is a string outside the five commands is
\* refused as unknown_message_type.
C16_UntypedIsInvalid ==
    [][(Validated /\ Untyped(ret'.input))
       => IF IsString(ret'.input.v.type)
          THEN Rejected(ret', "unknown_message_type")
          ELSE Rejected(ret', "invalid_message")]_vars

\* an object without a type, with well-formed data
C16_Witness ==
    /\ ret # NoReturn /\ ret.op = "validateClientMessage"
    /\ ret.input.enc = "text" /\ Untyped(ret.input)
    /\ ret.input.v.type = None /\ ret.input.v.data = Some(JData(None))
    /\ Rejected(ret, "invalid_message")

\* the message callback of c is about to validate a payload it will refuse
Refusing(c) ==
    /\ pc[c] = "message" /\ Authorized(c)
    /\ ~ validateClientMessage(loc[c].raw).ok

\* C17: a message that fails validation is answered with one error of kind
\* invalid_message, unknown_message_type or invalid_message_data; the socket
\* is not closed, no Project, ProjectFile or RunState row changes, and the
\* session stays in the registry, ready for the next message.
C17_InvalidIsRecoverable ==
    [][\A c \in Conns :
        (Refusing(c) /\ pc'[c] # pc[c])
        => LET v == validateClientMessage(loc[c].raw) IN
           /\ v.code \in {"invalid_message", "unknown_message_type",
                          "invalid_message_data"}
           /\ sent'[c] = <<ErrorMessage(v.code, v.message)>>
           /\ closedWith'[c] = NotClosed
           /\ db' = db
           /\ wsConnections'[c] = Connection(c)
           /\ pc'[c] = "idle" /\ wsData'[c] = wsData[c]]_vars

\* after an unknown command the socket is open and its session registered
C17_Witness ==
    \E c \in Conns :
        /\ Idle(c) /\ loc[c].raw = Command("totally_unknown")
        /\ sent[c] = <<ErrorMessage("unknown_message_type",
                                    <<"Unknown message type", "totally_unknown">>)>>
        /\ wsConnections[c] # NoSession
        /\ agentStates # {}

\* ------------------------------- SpecFaults: store calls that may fail
InitFailed ==
    ErrorMessage("internal_error", <<"Failed to initialize websocket connection">>)
MessageFailed ==
    ErrorMessage("internal_error", <<"Failed to handle websocket message">>)

\* the next statement of the callback of c is a store call: every statement
\* but the first of a message callback whose session is cached
AtStoreCall(c) ==
    /\ pc[c] # "idle"
    /\ pc[c] = "message" => wsConnections[c] = NoSession

\* a store failure that no catch block takes: the callback ends by throwing
StoreFailsUncaught(c) ==
    /\ AtStoreCall(c)
    /\ pc' = [pc EXCEPT ![c] = "thrown"]
    /\ UNCHANGED <<db, now, call, ret, wsConnections, wsData, loc, sent, closedWith>>

\* the store call of the callback rejects: the catch block of open or of
\* message runs, and the callback returns
StoreFails(c) ==
    /\ AtStoreCall(c)
    /\ IF pc[c] = "open"
       THEN Reject(c, InitFailed, CloseInternal)
       ELSE Reply(c, MessageFailed)
    /\ UNCHANGED <<db, now, call, ret, wsConnections, wsData>>

\* the steps of Spec at one instant of the clock, and the failures
NextFaults ==
    \/ Quiet /\ WsRestStarts
    \/ Quiet /\ WsStarts({"ws1"})
    \/ RestSteps
    \/ WsSteps({"ws1"})
    \/ StoreFails("ws1")

SpecFaults == Init /\ [][NextFaults]_vars

\* the store call of c fails in this step
Failing(c) == AtStoreCall(c) /\ StoreFails(c)

\* C18: a store call that fails inside a callback never makes the callback
\* throw; in message the callback sends one internal_error with a fixed text
\* and leaves the socket open for later messages, in open it sends one
\* internal_error with a fixed text and closes with 1011.
C18_FailuresAreCaught ==
    [][\A c \in Conns :
        /\ pc'[c] # "thrown"
        /\ Failing(c)
           => /\ pc'[c] = "idle" /\ db' = db
              /\ IF pc[c] = "open"
                 THEN sent'[c] = <<InitFailed>> /\ closedWith'[c] = CloseInternal
                 ELSE /\ sent'[c] = <<MessageFailed>>
                      /\ closedWith'[c] = NotClosed
                      /\ wsData'[c] = wsData[c]
                      /\ wsConnections'[c] = wsConnections[c]]_vars

\* a failed user_message on a socket that has no session yet: still open
C18_Witness ==
    \E c \in Conns :
        /\ Idle(c) /\ loc[c].raw = UserMessage(<<"b">>)
        /\ sent[c] = <<MessageFailed>>
        /\ wsConnections[c] = NoSession
        /\ OwnsProject(c) /\ RunState(c) # NoRow

\* --------------------- SpecConc: callbacks and repository calls interleave
\* two sockets of the owner on project p1, each sending one command; a
\* repository caller upserts and resets the RunState of p1 under either id
\* while the callbacks run
Commands ==
    {Command("start_generation"), Command("stop_generation"),
     UserMessage(<<"b">>)}

ConcStarts ==
    \/ \E c \in Conns : Upgrade(c, "p1", "userA")
    \/ \E c \in Conns, raw \in Commands :
           /\ loc[c].raw = NoRow
           /\ Deliverable(raw) /\ MessageStart(c, raw)
    \/ Create(ProjectInput("p1", "userA"))
    \/ Delete(Key("p1", "userA"))
    \/ \E id \in StateIds :
           UpsertCheck("upsertForProject", BareInput(id, "p1", "userA", "idle"))
    \/ UpsertCheck("upsertForProject", RunningInput("s1", "p1", "userA"))
    \/ ResetAgentState(Key("p1", "userA"))

\* the statements of the three writing commands
ConcSteps ==
    \E c \in Conns :
        \/ Message(c)
        \/ LoadProject(c, "start:project", "start:agent") \/ StartRead(c)
        \/ HandlerAccess(c, "start:access", "start:upsert")
        \/ HandlerUpsert(c, "start:upsert")
        \/ StopRead(c)
        \/ HandlerAccess(c, "stop:access", "stop:upsert")
        \/ HandlerUpsert(c, "stop:upsert")
        \/ UserRead(c)
        \/ HandlerAccess(c, "user:access", "user:upsert")
        \/ HandlerUpsert(c, "user:upsert")

NextConc ==
    \/ ConcStarts
    \/ RestSteps
    \/ ConcSteps

SpecConc == Init /\ [][NextConc]_vars

\* C19: whatever upserts, resets and commands of two connections interleave,
\* a project has at most one RunState row; a statement that finds a row for
\* the project leaves it under its id, and an upsert answers with that row,
\* not with the id of its input.
C19_OneRunStatePerProject ==
    /\ [](\A s, t \in agentStates : s.projectId = t.projectId => s = t)
    /\ [][/\ \A s \in agentStates, t \in agentStates' :
                 s.projectId = t.projectId => t.id = s.id
          /\ \A s \in agentStates :
                 (/\ Returned({"upsertForProject"})
                  /\ ret'.input.projectId = s.projectId
                  /\ ret'.value # NoRow)
                 => /\ ret'.value.id = s.id
                    /\ ret'.value.currentState = ret'.input.currentState
                    /\ agentStates' = (agentStates \ {s}) \cup {ret'.value}]_vars

\* an upsert under another id answered with the row of a run that a command
\* started, while the other connection is about to write
C19_Witness ==
    /\ ret # NoReturn /\ ret.op = "upsertForProject"
    /\ ret.input.id = "s2" /\ ret.value # NoRow /\ ret.value.id = "s1"
    /\ agentStates = {ret.value}
    /\ \E c \in Conns : pc[c] = "user:upsert"
    /\ \E c \in Conns : Handled(c, "start_generation") /\ closedWith[c] = NotClosed

\* ---------------------------- SpecMerge: upsertForProject, field by field
\* every choice of present and absent optional fields, null included
MergeInputs ==
    {[projectId |-> "p1", userId |-> "userA", id |-> "s1", previewUrl |-> pv,
      sandboxId |-> sb, currentState |-> st[1], currentPhase |-> st[2],
      phases |-> ph, generatedFiles |-> gf, conversationHistory |-> ch] :
        st \in {<<"idle", NullPhase>>, <<"completed", 1>>},
        ph \in {None, Some(<<>>), Some(<<Phase1>>)},
        gf \in {None, Some(<<"a.ts">>)},
        ch \in {None, Some(<<AssistantEntry>>)},
        sb \in {None, Some(NULL), Some("sb1")},
        pv \in {None, Some(NULL), Some("urlS")}}

NextMerge ==
    \/ Tick
    \/ Create(ProjectInput("p1", "userA"))
    \/ \E input \in MergeInputs : UpsertCheck("upsertForProject", input)
    \/ UpsertAgentState
    \/ Respond

SpecMerge == Init /\ [][NextMerge]_vars

\* what a field holds after an upsert: the input's value when the input has
\* the field, null included, and the prior value when it has not
Written(field, prior) == IF field = None THEN prior ELSE field[1]

\* C20: upsertForProject on a project with a RunState row overwrites
\* currentState, currentPhase and updatedAt, and of phases, generatedFiles,
\* conversationHistory, sandboxId and previewUrl exactly the fields its input
\* has; an omitted field keeps its value and an explicit null is stored.
C20_MergeKeepsOmitted ==
    [][\A s \in agentStates :
         (Returned({"upsertForProject"}) /\ ret'.input.projectId = s.projectId)
         => LET input == ret'.input
                new == ret'.value IN
            /\ ret'.threw = "" /\ agentStates' = {new}
            /\ new.id = s.id /\ new.projectId = s.projectId
            /\ new.currentState = input.currentState
            /\ new.currentPhase = input.currentPhase
            /\ new.updatedAt = now
            /\ new.phases = Written(input.phases, s.phases)
            /\ new.generatedFiles = Written(input.generatedFiles, s.generatedFiles)
            /\ new.conversationHistory
                   = Written(input.conversationHistory, s.conversationHistory)
            /\ new.sandboxId = Written(input.sandboxId, s.sandboxId)
            /\ new.previewUrl = Written(input.previewUrl, s.previewUrl)]_vars

\* only currentState was given besides a null sandboxId: phases and
\* previewUrl are those of the row, at a later time
C20_Witness ==
    /\ ret # NoReturn /\ ret.op = "upsertForProject" /\ ret.value # NoRow
    /\ ret.input.currentState = "completed"
    /\ ret.input.phases = None /\ ret.input.previewUrl = None
    /\ ret.input.generatedFiles = None /\ ret.input.conversationHistory = None
    /\ ret.input.sandboxId = Some(NULL)
    /\ ret.value.phases = <<Phase1>> /\ ret.value.previewUrl = "urlS"
    /\ ret.value.sandboxId = NULL /\ ret.value.updatedAt = 1
    /\ agentStates = {ret.value}

\* ------------------- SpecFiles: the file repository, with a second caller
\* batches of upsertMany: of userA over both projects, and of either user over
\* p2; the i-th input carries the i-th content, so that the input a row came
\* from can be told
FileContents == <<"v1", "v2">>
BatchInputs(content) ==
    {FileInput(id, p, path, content, "userA") :
        id \in FileIds, p \in ProjectIds, path \in PathSet}
FileBatches ==
    {<<>>}
    \cup {<<a>> : a \in BatchInputs(FileContents[1])}
    \cup {<<a, b>> : a \in BatchInputs(FileContents[1]),
                     b \in BatchInputs(FileContents[2])}
    \cup {<<FileInput("f1", "p1", "a.ts", "v1", "userA"),
            FileInput("f2", q, "b.ts", "v1", "userA"),
            FileInput("f3", "p1", "a.ts", "v2", "userA")>> : q \in ProjectIds}
    \cup {<<FileInput("f1", "p2", "a.ts", "v1", u),
            FileInput("f2", "p2", path, "v2", w)>> :
              u \in Users, w \in Users, path \in PathSet}

\* the statements of a second caller that fall between the ownership check
\* and the insert of the upsert in flight; its results go to its own client
\* and are not recorded
OtherUpsertFile(input) ==
    /\ Running("upsertFile")
    /\ CanAccessProject(projects, input.projectId, input.userId)
    /\ projectFiles' = InsertFileOnConflict(projects, projectFiles, input, now).rows
    /\ UNCHANGED <<projects, agentStates, now, call, ret, wsvars>>

OtherDeleteFile(input) ==
    /\ Running("upsertFile")
    /\ projectFiles' = DeleteByPath(projects, projectFiles, input).rows
    /\ UNCHANGED <<projects, agentStates, now, call, ret, wsvars>>

OtherDelete(input) ==
    /\ call # NoCall
    /\ LET r == DeleteForUser(projects, projectFiles, agentStates,
                              input.projectId, input.userId) IN
       /\ projects' = r.projects
       /\ projectFiles' = r.projectFiles
       /\ agentStates' = r.agentStates
    /\ UNCHANGED <<now, call, ret, wsvars>>

NextFiles ==
    \/ Tick
    \/ Create(ProjectInput("p1", "userA"))
    \/ \E u \in Users : Create(ProjectInput("p2", u))
    \/ \E p \in ProjectIds : Delete(Key(p, "userA"))
    \/ Delete(Key("p2", "userB"))
    \/ \E id \in FileIds, p \in ProjectIds, path \in PathSet,
          i \in 1..Len(FileContents), u \in Users :
           UpsertCheck("upsertFile", FileInput(id, p, path, FileContents[i], u))
    \/ UpsertFile
    \/ \E batch \in FileBatches : UpsertManyFiles(batch)
    \/ \E p \in ProjectIds, path \in PathSet : DeleteFile(PathKey(p, path, "userA"))
    \/ \E id \in FileIds, path \in PathSet :
           OtherUpsertFile(FileInput(id, "p1", path, "v2", "userA"))
    \/ \E path \in PathSet : OtherDeleteFile(PathKey("p1", path, "userA"))
    \/ OtherDelete(Key("p1", "userA"))
    \/ Respond

SpecFiles == Init /\ [][NextFiles]_vars

\* the rows with their updatedAt blanked
Undated(rows) == {[f EXCEPT !.updatedAt = 0] : f \in rows}
\* the insert statement of the upsertFile in flight runs in this step
FileInserted == Running("upsertFile") /\ Returned({"upsertFile"})

\* C21: whatever upsertFile, upsertMany and deleteByPath calls interleave, no
\* two ProjectFile rows share a (projectId, path); an upsertFile whose insert
\* finds a row at its (projectId, path) returns that row under its original
\* id with the input's content and changes no other row, and when the row
\* already held that content the stored rows differ in updatedAt at most.
C21_OneRowPerPath ==
    /\ [](\A f, g \in projectFiles :
            (f.projectId = g.projectId /\ f.path = g.path) => f = g)
    /\ [][\A f \in projectFiles :
            (/\ FileInserted
             /\ f.projectId = call.input.projectId /\ f.path = call.input.path)
            => /\ ret'.threw = ""
               /\ ret'.value = [f EXCEPT !.content = call.input.content,
                                         !.updatedAt = now]
               /\ projectFiles' = (projectFiles \ {f}) \cup {ret'.value}
               /\ f.content = call.input.content
                  => Undated(projectFiles') = Undated(projectFiles)]_vars

\* a second write to the path under another id, at a later time, answered
\* with the first row's id and the new content
C21_Witness ==
    /\ ret # NoReturn /\ ret.op = "upsertFile" /\ ret.value # NoRow
    /\ ret.input.id = "f2" /\ ret.value.id = "f1"
    /\ ret.input.content = "v2" /\ ret.value.content = "v2"
    /\ ret.value.updatedAt = 1
    /\ {f \in projectFiles : f.projectId = ret.input.projectId} = {ret.value}

\* the inputs of a batch whose asserted user owns the project, and the others
OwnedAt(batch) ==
    {i \in 1..Len(batch) : Owns(batch[i].userId, batch[i].projectId)}
ForeignAt(batch) == (1..Len(batch)) \ OwnedAt(batch)
SameTarget(a, b) == a.projectId = b.projectId /\ a.path = b.path
\* the last owned input of the batch that writes the path of input i
LastAt(batch, i) ==
    CHOOSE j \in OwnedAt(batch) :
        /\ SameTarget(batch[j], batch[i])
        /\ \A k \in OwnedAt(batch) : SameTarget(batch[k], batch[i]) => k <= j
\* every owned input is stored, a path written twice with its last content
Persisted(batch) ==
    \A i \in OwnedAt(batch) :
        \E f \in projectFiles' :
            SameTarget(f, batch[i]) /\ f.content = batch[LastAt(batch, i)].content
\* only the rows the owned inputs name have changed
OnlyTargets(batch) ==
    \A f \in (projectFiles \ projectFiles') \cup (projectFiles' \ projectFiles) :
        \E i \in OwnedAt(batch) : SameTarget(f, batch[i])
\* an owned input carries the id of a row, or of an earlier input, at
\* another (projectId, path)
IdClash(batch) ==
    \E i \in OwnedAt(batch) :
        \/ \E f \in projectFiles : f.id = batch[i].id /\ ~ SameTarget(f, batch[i])
        \/ \E j \in OwnedAt(batch) :
               j < i /\ batch[j].id = batch[i].id /\ ~ SameTarget(batch[j], batch[i])
OneForeign(batch) == Cardinality(ForeignAt(batch)) = 1
ForeignProject(batch) ==
    batch[CHOOSE i \in ForeignAt(batch) : TRUE].projectId

FirstAt(batch, i) ==
    CHOOSE j \in OwnedAt(batch) :
        /\ SameTarget(batch[j], batch[i])
        /\ \A k \in OwnedAt(batch) : SameTarget(batch[k], batch[i]) => j <= k
\* the rows stored at the path of an input
RowsAt(rows, input) == {f \in rows : SameTarget(f, input)}

\* C23: an upsertMany that returns has applied its owned inputs in list order
\* and answers their number, an input counted once even when it rewrites the
\* path of an earlier one; each path written has one row, under the id it had
\* before or else the id of the first input that wrote it, with the content
\* of the last input that wrote it; a batch that raises stores nothing, and
\* an empty list returns 0 and touches nothing.
C23_BatchInListOrder ==
    [][Returned({"upsertMany"}) =>
        LET batch == ret'.input IN
        /\ ret'.threw = ""
           => /\ ret'.value = Cardinality(OwnedAt(batch))
              /\ \A i \in OwnedAt(batch) :
                    \E f \in projectFiles' :
                        /\ RowsAt(projectFiles', batch[i]) = {f}
                        /\ f.content = batch[LastAt(batch, i)].content
                        /\ f.updatedAt = now
                        /\ IF RowsAt(projectFiles, batch[i]) = {}
                           THEN f.id = batch[FirstAt(batch, i)].id
                           ELSE f.id \in {g.id : g \in RowsAt(projectFiles, batch[i])}
              /\ OnlyTargets(batch)
        /\ ret'.threw # "" => projectFiles' = projectFiles
        /\ batch = <<>> => (ret'.threw = "" /\ ret'.value = 0 /\ db' = db)
        /\ projects' = projects /\ agentStates' = agentStates]_vars

\* three owned inputs, the third on the path of the first: 3 is answered,
\* two rows are stored, a.ts under the first id with the third content
C23_Witness ==
    /\ ret # NoReturn /\ ret.op = "upsertMany" /\ Len(ret.input) = 3
    /\ ret.threw = "" /\ ret.value = 3
    /\ Undated(projectFiles)
           = Undated({InsertedFile(FileInput("f1", "p1", "a.ts", "v2", "userA"), 0),
                      InsertedFile(FileInput("f2", "p1", "b.ts", "v1", "userA"), 0)})

\* C24: a create whose id is the id of a stored project fails with the
\* UniqueConstraintError kind, not with the store's own error, and leaves the
\* stored project as it was.
C24_DuplicateCreateTranslated ==
    [][(/\ Returned({"create"})
        /\ \E p \in projects : p.id = ret'.input.id)
       => /\ ret'.threw = "UniqueConstraintError"
          /\ projects' = projects]_vars

\* --------------------------- SpecPatch: updateForUser, field by field
\* every choice of present and absent fields, null included where the column
\* is nullable
Patches ==
    {[name |-> n, description |-> d, status |-> st, previewUrl |-> pv,
      sandboxId |-> sb] :
        n \in {None, Some("renamed")},
        d \in {None, Some(NULL), Some("about")},
        st \in {None, Some("running")},
        pv \in {None, Some(NULL), Some("urlP")},
        sb \in {None, Some("sb1")}}

NextPatch ==
    \/ Tick
    \/ \E u \in Users : Create(ProjectInput("p1", u))
    \/ \E u \in Users, patch \in Patches : Update(PatchInput("p1", u, patch))
    \/ \E u \in Users : Delete(Key("p1", u))
    \/ Respond

SpecPatch == Init /\ [][NextPatch]_vars

\* the patch provides no field
ZeroFields(patch) == \A k \in DOMAIN patch : patch[k] = None

\* C25: updateForUser with a patch of zero fields writes nothing and returns
\* the caller's project row as it is stored, updatedAt included, or null when
\* the caller has no such project; with a patch that has fields, the row's
\* provided fields take the patch's values, updatedAt the time of the call,
\* and every other field and row stays.
C25_PatchOnlyProvided ==
    [][Returned({"updateForUser"}) =>
        LET patch == ret'.input.patch
            rows == {p \in projects : p.id = ret'.input.projectId
                                      /\ p.userId = ret'.input.userId} IN
        /\ ret'.threw = ""
        /\ rows = {} => (ret'.value = NoRow /\ projects' = projects)
        /\ \A cur \in rows :
              IF ZeroFields(patch)
              THEN ret'.value = cur /\ projects' = projects
              ELSE /\ ret'.value =
                        [userId |-> cur.userId, id |-> cur.id,
                         name |-> Written(patch.name, cur.name),
                         description |-> Written(patch.description, cur.description),
                         status |-> Written(patch.status, cur.status),
                         previewUrl |-> Written(patch.previewUrl, cur.previewUrl),
                         sandboxId |-> Written(patch.sandboxId, cur.sandboxId),
                         updatedAt |-> now]
                   /\ projects' = (projects \ {cur}) \cup {ret'.value}]_vars

\* a project renamed at time 0 and patched with nothing at time 1: the row is
\* returned with the updatedAt of the rename
C25_Witness ==
    /\ ret # NoReturn /\ ret.op = "updateForUser"
    /\ ZeroFields(ret.input.patch) /\ ret.value # NoRow
    /\ ret.value.name = "renamed" /\ ret.value.description = NULL
    /\ ret.value.updatedAt = 0 /\ now = 1
    /\ projects = {ret.value}

\* ------------- SpecCascade: projects deleted under their files and states
\* the upserts of files and run states of two projects, and deletes of the
\* projects that fall before, between and after their two statements
NextCascade ==
    \/ \E p \in ProjectIds, u \in Users : Create(ProjectInput(p, u))
    \/ \E p \in ProjectIds, u \in Users : Delete(Key(p, u))
    \/ \E k \in {<<"f1", "p1">>, <<"f2", "p2">>}, u \in Users :
           UpsertCheck("upsertFile", FileInput(k[1], k[2], "a.ts", "one", u))
    \/ \E k \in {<<"s1", "p1">>, <<"s2", "p2">>}, u \in Users :
           UpsertCheck("upsertForProject", BareInput(k[1], k[2], u, "idle"))
    \/ UpsertFile
    \/ UpsertAgentState
    \/ \E p \in ProjectIds, u \in Users : OtherDelete(Key(p, u))
    \/ Respond

SpecCascade == Init /\ [][NextCascade]_vars

\* the rows of a table that belong to a project
Of(rows, projectId) == {r \in rows : r.projectId = projectId}

\* C26: deleteForUser answers true exactly when the caller owned a project
\* of that id, which this call removed together with its ProjectFile and
\* RunState rows, and nothing else; it answers false and removes nothing
\* otherwise, as a repeated delete does; in every state each ProjectFile and
\* RunState row belongs to a stored project, even when the project is
\* deleted between the two statements of an upsert.
C26_DeleteCascades ==
    /\ [](\A r \in projectFiles \cup agentStates :
            \E p \in projects : p.id = r.projectId)
    /\ [][Returned({"deleteForUser"}) =>
            LET id == ret'.input.projectId IN
            /\ ret'.threw = ""
            /\ ret'.value = Owns(ret'.input.userId, id)
            /\ IF ret'.value
               THEN /\ projects' = {p \in projects : p.id # id}
                    /\ projectFiles' = projectFiles \ Of(projectFiles, id)
                    /\ agentStates' = agentStates \ Of(agentStates, id)
               ELSE db' = db]_vars

\* the owner has deleted p1: none of its rows is left, and the other user's
\* project keeps its file and its run state
C26_Witness ==
    /\ ret # NoReturn /\ ret.op = "deleteForUser" /\ ret.value = TRUE
    /\ ret.input = Key("p1", "userA")
    /\ Owns("userB", "p2") /\ \A p \in projects : p.id = "p2"
    /\ projectFiles = Of(projectFiles, "p2") /\ projectFiles # {}
    /\ agentStates = Of(agentStates, "p2") /\ agentStates # {}

\* C27: resetForProject answers true exactly when its caller owns the project
\* and the project had a RunState row, which this call has deleted; after an
\* owner's reset the project has no RunState row, so a second reset answers
\* false and getByProjectForUser null; a reset by anyone else answers false
\* and deletes nothing; no Project or ProjectFile row changes.
C27_ResetByOwnerOnly ==
    [][/\ Returned({"resetForProject"}) =>
            LET id == ret'.input.projectId
                owner == Owns(ret'.input.userId, id) IN
            /\ ret'.threw = ""
            /\ ret'.value = (owner /\ Of(agentStates, id) # {})
            /\ agentStates' = IF owner THEN agentStates \ Of(agentStates, id)
                              ELSE agentStates
            /\ projects' = projects /\ projectFiles' = projectFiles
       /\ (/\ Returned({"getByProjectForUser"})
           /\ Of(agentStates, ret'.input.projectId) = {})
          => ret'.value = NoRow]_vars

\* the owner has reset p1, which keeps its file; the run state of the other
\* project is still there
C27_Witness ==
    /\ ret # NoReturn /\ ret.op = "resetForProject" /\ ret.value = TRUE
    /\ Owns(ret.input.userId, ret.input.projectId)
    /\ Of(agentStates, ret.input.projectId) = {} /\ agentStates # {}
    /\ Of(projectFiles, ret.input.projectId) # {}

\* ------------------- SpecSessions: sockets that come and go on one project
\* two sockets on project p1, of its owner or of another user, each opened,
\* asking for the state and closed in any order, their callbacks overlapping,
\* over a project that holds a file and a run state
SessionStarts ==
    \/ \E c \in Conns, u \in Users : Upgrade(c, "p1", u)
    \/ \E c \in Conns : OpenStart(c)
    \/ \E c \in Conns : MessageStart(c, Command("get_state"))
    \/ \E c \in Conns : Close(c)
    \/ Create(ProjectInput("p1", "userA"))
    \/ UpsertCheck("upsertFile", FileInput("f1", "p1", "a.ts", "one", "userA"))
    \/ UpsertCheck("upsertForProject", RunningInput("s1", "p1", "userA"))

SessionSteps ==
    \E c \in Conns :
        \/ Open(c) \/ Message(c)
        \/ LoadProject(c, "state:project", "state:agent") \/ SendStateUpdate(c)

NextSessions ==
    \/ SessionStarts
    \/ UpsertFile
    \/ RestSteps
    \/ SessionSteps

SpecSessions == Init /\ [][NextSessions]_vars

\* the close callback of c runs in this step
Closing(c) == wsData[c] # NoData /\ wsData'[c] = NoData

\* C28: the close callback takes the entry of the closing connection out of
\* the registry and nothing else: no Project, ProjectFile or RunState row
\* changes, every other connection keeps its session, and when the
\* connection has no entry the registry stays as it is.
C28_CloseEvictsOne ==
    [][\A c \in Conns :
        Closing(c)
        => /\ db' = db
           /\ wsConnections'[c] = NoSession
           /\ \A d \in Conns \ {c} : wsConnections'[d] = wsConnections[d]
           /\ wsConnections[c] = NoSession => wsConnections' = wsConnections]_vars

\* a socket that was answered with the run state is closed and out of the
\* registry; the other socket on the project keeps its session, and the
\* project its file and run state
C28_Witness ==
    \E c \in Conns, d \in Conns :
        /\ wsData[c] = NoData /\ wsConnections[c] = NoSession
        /\ sent[c] # <<>> /\ sent[c][1].type = "state_update"
        /\ wsData[d] # NoData /\ wsConnections[d] = Session(d)
        /\ Session(d).projectId = "p1"
        /\ projectFiles # {} /\ agentStates # {}

\* the message m is a reaction to the payload raw
Answers(raw, m) ==
    LET v == validateClientMessage(raw) IN
    IF ~ v.ok THEN m \in {ErrorMessage(v.code, v.message), AccessDenied}
    ELSE \/ m.type = "error"
         \/ v.type = "get_preview_url" /\ m.type = "preview_url"
         \/ v.type # "get_preview_url" /\ m.type = "state_update"
\* a statement of the callback of c runs in this step
StepOf(c) == pc[c] # "idle"
\* a repository call made outside the connections runs in this step
RestStep == call' # call \/ ret' # ret

\* C29: on a connection whose callbacks do not overlap, each message is
\* answered by one outbound message, a reaction to that message, sent by the
\* last statement of its callback, after all its store reads and writes; the
\* connection reads and writes nothing between two callbacks, so the
\* commands take effect and are answered in the order they arrive.
C29_OneCommandAtATime ==
    [][\A c \in Conns :
        /\ (StepOf(c) /\ pc[c] # "open")
           => IF Done(c)
              THEN /\ Len(sent'[c]) = 1 /\ Answers(loc[c].raw, sent'[c][1])
                   /\ loc'[c].raw = loc[c].raw
              ELSE sent'[c] = <<>> /\ closedWith'[c] = NotClosed
        /\ (pc[c] = "idle" /\ pc'[c] = "message")
           => (sent'[c] = <<>> /\ db' = db /\ \A d \in Conns : pc[d] = "idle")
        /\ (\A d \in Conns : ~ StepOf(d)) => (db' # db => RestStep)]_vars

\* two user messages on one connection, stored in the order they came; the
\* second was answered with the state it left
C29_Witness ==
    \E c \in Conns :
        /\ Handled(c, "user_message") /\ loc[c].raw = UserMessage(<<"b">>)
        /\ RunState(c) # NoRow /\ Len(RunState(c).conversationHistory) = 2
        /\ RunState(c).conversationHistory[1].content = <<"a">>
        /\ RunState(c).conversationHistory[1].timestamp = 0
        /\ RunState(c).conversationHistory[2].content = <<"b">>
        /\ RunState(c).conversationHistory[2].timestamp = 1
        /\ sent[c] = <<StateUpdate("completed", NullPhase, 0, <<>>, NULL)>>

\* ------------- SpecRace: two connections start a generation on one project
\* a run that has ended, every column set
CompletedInput ==
    [RunningInput("s1", "p1", "userA") EXCEPT !.currentState = "completed"]

NoSockets == \A c \in Conns : wsData[c] = NoData

\* the project and its RunState, idle or completed, are stored before the
\* sockets come
RaceSetup ==
    /\ NoSockets
    /\ \/ Create(ProjectInput("p1", "userA"))
       \/ UpsertCheck("upsertForProject", BareInput("s1", "p1", "userA", "idle"))
       \/ UpsertCheck("upsertForProject", CompletedInput)

\* two sockets of the owner, each opened and then sent one start_generation
RaceStarts ==
    \E c \in Conns :
        \/ RestIdle /\ agentStates # {} /\ Upgrade(c, "p1", "userA")
        \/ OpenStart(c)
        \/ /\ wsConnections[c] # NoSession /\ loc[c].raw = NoRow
           /\ MessageStart(c, Command("start_generation"))

RaceSteps ==
    \E c \in Conns :
        \/ Open(c) \/ Message(c)
        \/ LoadProject(c, "start:project", "start:agent") \/ StartRead(c)
        \/ HandlerAccess(c, "start:access", "start:upsert")
        \/ HandlerUpsert(c, "start:upsert")

NextRace ==
    \/ Tick
    \/ RaceSetup
    \/ RestSteps
    \/ RaceStarts
    \/ RaceSteps

SpecRace == Init /\ [][NextRace]_vars

\* the answer to a start that went through, and the one to a start refused
Started(c, previewUrl) ==
    /\ sent[c] = <<StateUpdate("generating", 0, 0, <<>>, previewUrl)>>
    /\ closedWith[c] = NotClosed
Conflict(c) == sent[c] = <<InProgress>> /\ closedWith[c] = CloseConflict

\* C30: when two authorized connections have each had a start_generation
\* handled on a project whose RunState was not generating, in whatever order
\* their statements ran, the project has one RunState row, generating at
\* phase 0 with nothing generated; each connection was answered either with
\* the state_update of a start or with generation_in_progress, and at least
\* one with the state_update.
C30_RaceEndsGenerating ==
    (\A c \in Conns : Handled(c, "start_generation"))
    => \E s \in agentStates :
          /\ agentStates = {s} /\ s.projectId = "p1"
          /\ s.currentState = "generating" /\ s.currentPhase = 0
          /\ s.phases = <<>> /\ s.generatedFiles = <<>>
          /\ \A c \in Conns : Started(c, s.previewUrl) \/ Conflict(c)
          /\ \E c \in Conns : Started(c, s.previewUrl)

\* both connections read the completed run before either wrote: both were
\* answered with the state_update, neither with generation_in_progress
C30_Witness ==
    /\ \A c \in Conns : Handled(c, "start_generation") /\ Started(c, "urlS")
    /\ \E s \in agentStates :
          /\ agentStates = {s} /\ s.currentState = "generating"
          /\ s.currentPhase = 0 /\ s.sandboxId = "sb1"

\* ------------------------------ SpecLists: the two listings of the repositories
\* the orders a store may return rows in
Orderings(rows) ==
    {s \in [1..Cardinality(rows) -> rows] :
        \A i, j \in 1..Cardinality(rows) : s[i] = s[j] => i = j}

\* orderBy(desc(projects.updatedAt)): the store orders rows of one updatedAt
\* as it likes
ByUpdatedAtDesc(rows) ==
    {s \in Orderings(rows) :
        \A i, j \in 1..Len(s) : i < j => s[i].updatedAt >= s[j].updatedAt}

\* a listing without its orderBy
ListByUserIdUnordered(projs, userId) ==
    Orderings({p \in projs : p.userId = userId})

\* select().from(projects).where(eq(projects.userId, userId)).orderBy(...):
\* the lists the call may return
ListByUserId(projs, userId) ==
    ByUpdatedAtDesc({p \in projs : p.userId = userId})

UserKey(userId) == [userId |-> userId]

\* ProjectsRepository.listByUserId
ListProjects(input) ==
    /\ RestIdle
    /\ \E value \in ListByUserId(projects, input.userId) :
           Returns("listByUserId", input, "", value)
    /\ UNCHANGED <<db, now, wsvars>>

NextLists ==
    \/ Tick
    \/ \E p \in ProjectIds, u \in Users : Create(ProjectInput(p, u))
    \/ \E p \in ProjectIds, u \in Users, patch \in {NoPatch, Rename} :
           Update(PatchInput(p, u, patch))
    \/ \E p \in ProjectIds, u \in Users : Delete(Key(p, u))
    \/ \E u \in Users : ListProjects(UserKey(u))
    \/ \E id \in FileIds, p \in ProjectIds, path \in PathSet, u \in Users :
           UpsertCheck("upsertFile", FileInput(id, p, path, "one", u))
    \/ UpsertFile
    \/ \E p \in ProjectIds, u \in Users : ListFiles(Key(p, u))
    \/ Respond

SpecLists == Init /\ [][NextLists]_vars

\* the elements of a list, and a list without repetitions
Elements(s) == {s[i] : i \in 1..Len(s)}
NoRepeats(s) == Cardinality(Elements(s)) = Len(s)

\* the two listings return the rows of their scope, in their order, and
\* change nothing
ListsAreScoped ==
    /\ Returned({"listByUserId"})
       => /\ Elements(ret'.value) = {p \in projects : p.userId = ret'.input.userId}
          /\ NoRepeats(ret'.value)
          /\ \A i, j \in 1..Len(ret'.value) :
                 i < j => ret'.value[i].updatedAt >= ret'.value[j].updatedAt
          /\ ret'.threw = "" /\ db' = db
    /\ Returned({"listByProjectForUser"})
       => /\ Elements(ret'.value)
                 = IF Owns(ret'.input.userId, ret'.input.projectId)
                   THEN {f \in projectFiles : f.projectId = ret'.input.projectId}
                   ELSE {}
          /\ NoRepeats(ret'.value)
          /\ \A i, j \in 1..Len(ret'.value) :
                 i < j => PathRank(ret'.value[i].path) < PathRank(ret'.value[j].path)
          /\ ret'.threw = "" /\ db' = db

\* updateForUser has applied a non-empty patch in this step
Patched ==
    /\ Returned({"updateForUser"})
    /\ ~ PatchIsEmpty(ret'.input.patch) /\ ret'.value # NoRow

ChatSetup ==
    /\ NoSockets
    /\ \/ Create(ProjectInput("p1", "userA"))
       \/ UpsertCheck("upsertForProject", RunningInput("s1", "p1", "userA"))
       \/ UpsertCheck("upsertForProject", BareInput("s1", "p1", "userA", "idle"))

\* what each socket says in its user_message
ContentOf(c) == IF c = "ws1" THEN <<"a">> ELSE <<"b">>
ChatCommands(c) ==
    {Command("start_generation"), Command("stop_generation"),
     UserMessage(ContentOf(c))}

\* two sockets of the owner, each sent one command, opened first or not
ChatStarts ==
    \E c \in Conns :
        \/ RestIdle /\ agentStates # {} /\ Upgrade(c, "p1", "userA")
        \/ OpenStart(c)
        \/ /\ loc[c].raw = NoRow
           /\ \E raw \in ChatCommands(c) : MessageStart(c, raw)

NextChat ==
    \/ ChatSetup
    \/ RestSteps
    \/ ChatStarts
    \/ \E c \in Conns : Open(c)
    \/ ConcSteps

SpecChat == Init /\ [][NextChat]_vars

\* the write of the user_message handled on c runs in this step
UserWrites(c) == pc[c] = "user:upsert" /\ Done(c)

\* C32: the write of a user_message leaves currentState and currentPhase of
\* the stored RunState as they are, whatever start_generation or
\* stop_generation of another connection ran between its read and its write;
\* so a RunState that a stop_generation left idle is still idle after it.
C32_UserMessageKeepsState ==
    [][\A c \in Conns :
        UserWrites(c)
        => \A s \in agentStates, t \in agentStates' :
               s.projectId = t.projectId
               => /\ t.currentState = s.currentState
                  /\ t.currentPhase = s.currentPhase]_vars

\* the user_message of c was answered with a state_update
Acknowledged(c) ==
    /\ Handled(c, "user_message")
    /\ sent[c] # <<>> /\ sent[c][1].type = "state_update"
\* the contents of the user entries of a conversationHistory
Said(history) ==
    {history[i].content : i \in {j \in 1..Len(history) : history[j].role = "user"}}

\* C33: when no start_generation and no other RunState write came between,
\* the stored conversationHistory holds the content of every user_message
\* that was answered with a state_update, whether the callbacks of the two
\* connections overlapped or not.
C33_NoMessageLost ==
    (\A d \in Conns : loc[d].raw # Command("start_generation"))
    => \A c \in Conns :
           Acknowledged(c)
           => \E s \in agentStates : ContentOf(c) \in Said(s.conversationHistory)

\* the callback of c, whose session is cached, runs a statement in this step
\* while the session's user does not own the session's project
Orphaned(c) ==
    /\ wsConnections[c] # NoSession /\ ~ OwnsProject(c)
    /\ StepOf(c) /\ pc'[c] # pc[c]

\* C34: a cached session grants nothing by itself. On a connection that is in
\* the registry and whose project is deleted, or owned by someone else,
\* get_state, get_preview_url and start_generation are answered with one
\* project_access_denied and close 4003, stop_generation and user_message
\* with one internal_error and close 4004; no row is written, and nothing
\* else is sent.
C34_CachedSessionGrantsNothing ==
    [][\A c \in Conns :
        Orphaned(c)
        => /\ db' = db
           /\ wsConnections'[c] = wsConnections[c]
           /\ IF pc[c] = "message"
              THEN validateClientMessage(loc[c].raw).ok => Silent(c)
              ELSE /\ Done(c)
                   /\ \/ /\ \E type \in {"get_state", "get_preview_url",
                                         "start_generation"} : Handles(c, type)
                         /\ sent'[c] = <<AccessDenied>>
                         /\ closedWith'[c] = CloseForbidden
                      \/ /\ \E type \in {"stop_generation", "user_message"} :
                                Handles(c, type)
                         /\ sent'[c] = <<StateNotFound>>
                         /\ closedWith'[c] = CloseNotFound]_vars

\* an opened connection whose project went to another user, who started a
\* run on it: its user_message found no run state
C34_Witness ==
    \E c \in Conns :
        /\ Handled(c, "user_message") /\ wsConnections[c] = Session(c)
        /\ Foreign(Session(c).userId, Session(c).projectId)
        /\ agentStates # {}
        /\ sent[c] = <<StateNotFound>> /\ closedWith[c] = CloseNotFound

\* ----------- SpecOwners: projects that change hands while an upsert runs
\* the create of a second caller, between the ownership check and the insert
\* of the upsert in flight
OtherCreate(input) ==
    /\ call # NoCall
    /\ projects' = CreateProject(projects, input, now).rows
    /\ UNCHANGED <<projectFiles, agentStates, now, call, ret, wsvars>>

NextOwners ==
    \/ \E p \in ProjectIds, u \in Users : Create(ProjectInput(p, u))
    \/ \E id \in FileIds, p \in ProjectIds, u \in Users :
           UpsertCheck("upsertFile", FileInput(id, p, "a.ts", "one", u))
    \/ \E id \in StateIds, p \in ProjectIds, u \in Users :
           UpsertCheck("upsertForProject", BareInput(id, p, u, "idle"))
    \/ UpsertFile
    \/ UpsertAgentState
    \/ \E p \in ProjectIds, u \in Users : OtherDelete(Key(p, u))
    \/ \E p \in ProjectIds, u \in Users : OtherCreate(ProjectInput(p, u))
    \/ Respond

SpecOwners == Init /\ [][NextOwners]_vars

\* C35: the insert of upsertFile and of upsertForProject creates or modifies
\* a row only when, at that moment, the project of its input is owned by the
\* userId of its input, whatever deleteForUser and create calls ran between
\* the ownership check and the insert.
C35_WritesUnderOwnerOnly ==
    [][(/\ Returned({"upsertFile", "upsertForProject"})
        /\ <<projectFiles, agentStates>>' # <<projectFiles, agentStates>>)
       => Owns(ret'.input.userId, ret'.input.projectId)]_vars

\* C36: the state_update that answers a successful start_generation,
\* stop_generation or user_message is, field by field, the state_update a
\* get_state on the same connection would be answered with right after it:
\* the snapshot of the Project and RunState as the command left them,
\* previewUrl falling back to the Project's when the RunState has none.
C36_ReplyIsSnapshot ==
    [][\A c \in Conns :
        (/\ Done(c)
         /\ \E type \in {"start_generation", "stop_generation", "user_message"} :
                Handles(c, type)
         /\ sent'[c] # <<>> /\ sent'[c][1].type = "state_update")
        => sent'[c] = <<Snapshot(ReadProject(c)', ReadAgentState(c)')>>]_vars

\* ------------- SpecLive: SpecFaults, every started callback run to its end
\* a store call returns or fails, and the continuation that awaits it runs
CallbackStep == WsSteps({"ws1"}) \/ StoreFails("ws1")

SpecLive == Init /\ [][NextFaults]_vars /\ WF_vars(CallbackStep)

\* the close codes and the one error each comes with
ClosePairs(c) ==
    LET m == sent'[c][1]
        code == closedWith'[c] IN
    /\ code = CloseForbidden <=> m = AccessDenied
    /\ code = CloseNotFound <=> m = StateNotFound
    /\ code = CloseConflict <=> m \in {InProgress, NotInProgress}
    /\ code = CloseInternal <=> m = InitFailed
    /\ code = CloseInternal => pc[c] = "open"
    /\ code \in {NotClosed, CloseForbidden, CloseNotFound, CloseConflict,
                 CloseInternal}

\* C37: every open or message callback comes to its end, store calls
\* returning or failing, and has then sent exactly one message; it sends and
\* closes nothing before its last statement, and when it closes the socket
\* the one message is the error of that close code: project_access_denied
\* for 4003, internal_error (no run state) for 4004, generation_in_progress
\* or generation_not_in_progress for 4000, internal_error for 1011, the last
\* from open only.
C37_OneMessagePerCallback ==
    /\ \A c \in Conns : (pc[c] # "idle") ~> (pc[c] = "idle")
    /\ [][\A c \in Conns :
            StepOf(c)
            => IF Done(c)
               THEN Len(sent'[c]) = 1 /\ ClosePairs(c)
               ELSE Silent(c)]_vars

\* a stop_generation on a run that is not generating: one error, close 4000
C37_Witness ==
    \E c \in Conns :
        /\ Handled(c, "stop_generation") /\ pc[c] = "idle"
        /\ sent[c] = <<NotInProgress>> /\ closedWith[c] = CloseConflict
        /\ RunState(c) # NoRow

\* the first statement of a message callback runs in this step, on a
\* connection that has no entry in the registry
Unregistered(c) ==
    pc[c] = "message" /\ wsConnections[c] = NoSession /\ pc'[c] # pc[c]

\* C38: a message on a connection without a registry entry is checked for
\* ownership first. When the check fails the callback sends one
\* project_access_denied, closes with 4003 and is over: whatever the payload,
\* no validation error is sent, no row is written, nothing is cached. When
\* it succeeds the session is cached and the payload validated and
\* dispatched: a refused payload is answered with its validation error, the
\* socket left open, a valid one goes to the first statement of its handler.
C38_OwnershipBeforeValidation ==
    [][\A c \in Conns :
        Unregistered(c)
        => /\ db' = db
           /\ IF ~ Owns(wsData[c].userId, wsData[c].projectId)
              THEN /\ sent'[c] = <<AccessDenied>>
                   /\ closedWith'[c] = CloseForbidden
                   /\ pc'[c] = "idle"
                   /\ wsConnections' = wsConnections
              ELSE LET v == validateClientMessage(loc[c].raw) IN
                   /\ wsConnections' = [wsConnections EXCEPT ![c] = Session(c)]
                   /\ closedWith'[c] = NotClosed
                   /\ IF v.ok
                      THEN /\ pc'[c] = FirstLabel(v.type) /\ sent'[c] = <<>>
                           /\ loc'[c].content = v.content
                      ELSE /\ pc'[c] = "idle"
                           /\ sent'[c] = <<ErrorMessage(v.code, v.message)>>]_vars

\* a malformed payload on a socket that was never opened, from a user who
\* does not own the project: refused for the ownership, not for the payload
C38_Witness ==
    \E c \in Conns :
        /\ pc[c] = "idle" /\ wsData[c] # NoData /\ loc[c].raw = NotJson
        /\ Foreign(wsData[c].userId, wsData[c].projectId)
        /\ sent[c] = <<AccessDenied>> /\ closedWith[c] = CloseForbidden
        /\ wsConnections[c] = NoSession

\* the callback of c that may insert its session runs a statement in this step
Entering(c) == pc[c] \in {"open", "message"} /\ pc'[c] # pc[c]

\* C39: every entry of the session registry sits under its own connection
\* id and holds the project and user of that socket; an entry appears only
\* in the open or message callback of its connection, when getByIdForUser
\* finds the project for that pair; it never changes afterwards; it goes
\* only in the close callback of its connection. So the callbacks of one
\* connection never remove or overwrite the entry of another.
C39_RegistryEntriesAreOwn ==
    /\ [](\A c \in Conns :
            wsConnections[c] # NoSession
            => wsData[c] # NoData /\ wsConnections[c] = Session(c))
    /\ [][\A c \in Conns :
            /\ (wsConnections[c] = NoSession /\ wsConnections'[c] # NoSession)
               => /\ Entering(c)
                  /\ GetByIdForUser(projects, wsConnections'[c].projectId,
                                    wsConnections'[c].userId) # NoRow
            /\ (wsConnections[c] # NoSession /\ wsConnections'[c] # NoSession)
               => wsConnections'[c] = wsConnections[c]
            /\ (wsConnections[c] # NoSession /\ wsConnections'[c] = NoSession)
               => Closing(c)]_vars

\* both sockets of the owner are registered, one by its open and one by a
\* message whose callback is still running
C39_Witness ==
    \E c \in Conns, d \in Conns :
        /\ c # d /\ wsData[c] # NoData /\ wsData[d] # NoData
        /\ wsConnections[c] = Session(c) /\ wsConnections[d] = Session(d)
        /\ sent[c] = <<AgentConnected("p1")>> /\ pc[c] = "idle"
        /\ pc[d] = "state:agent"

\* what the repository is to raise for a store error code
Raised(code) == IF code = "23505" THEN "UniqueConstraintError" ELSE code
\* the insert of the upsert in flight meets the id of its input on a row of
\* another key, and no row of its own key
FileIdTaken ==
    /\ \A r \in projectFiles : ~ SameTarget(r, call.input)
    /\ \E r \in projectFiles : r.id = call.input.id
StateIdTaken ==
    /\ \A r \in agentStates : r.projectId # call.input.projectId
    /\ \E r \in agentStates : r.id = call.input.id

\* C40: upsertFile, upsertMany and upsertForProject raise the store's unique
\* violation (23505) as UniqueConstraintError and any other store error as it
\* is; an insert that meets a taken id raises instead of returning null, and
\* a call that raises leaves every stored row as it was.
C40_StoreErrorsAreTyped ==
    [][/\ (/\ Returned({"upsertFile", "upsertMany", "upsertForProject"})
           /\ ret'.threw # "")
          => /\ ret'.threw \in {Raised("23505"), Raised("23503")}
             /\ db' = db
       /\ (/\ Running("upsertFile") /\ Returned({"upsertFile"})
           /\ FileIdTaken)
          => ret'.threw = Raised("23505")
       /\ (/\ Running("upsertForProject") /\ Returned({"upsertForProject"})
           /\ StateIdTaken)
          => ret'.threw = Raised("23505")]_vars

====
